---- MODULE Spec2Model ----
(***************************************************************************)
(* Model of the document ingester of aks-kaito:                            *)
(*   document-ingestion/document-ingestion.py  (chunk_text, make_doc_id,   *)
(*   build_documents, request_json_with_retries, the create and update     *)
(*   modes of cli) and streamlit-chatbot/ragengine_ingest_adapter.py       *)
(*   (_build_documents_from_text, _filename_exists_in_index, ingest_file,  *)
(*   ingest_raw_text, _update_with_create_fallback), the latter against a  *)
(*   backend that keeps a document under the doc_id of the request and     *)
(*   under an id of its own when the request has none.                     *)
(*                                                                         *)
(* A Python str is a sequence of one-character strings.  chunk_text only   *)
(* ever tests a character for being whitespace or a newline, so the        *)
(* non-whitespace character at position i of an input text is the i-th     *)
(* letter of Letters: all letters of a text are distinct, which makes any  *)
(* loss, duplication or reordering of characters visible.                  *)
(***************************************************************************)
EXTENDS Integers, Sequences, FiniteSets, TLC

\* ------------------------------------------------------------------ bounds
MaxTextLen == 8        \* longest input text made of letters and newlines
MaxSpacedTextLen == 5  \* longest input text that also has spaces or carriage returns
MaxChars == 4          \* largest max_chars tried
MaxOverlap == 4        \* largest overlap_chars tried
MaxDocTextLen == 5     \* longest document taken through build_documents
MaxIdentPieces == 2    \* pieces an identifier given to make_doc_id is made of
MaxIndex == 11         \* largest chunk index given to make_doc_id
MaxValidTextLen == 6   \* longest text of the calls checked for termination
MaxRerunTextLen == 4   \* longest document that is built twice
MaxRetries == 3        \* largest retries given to request_json_with_retries
MaxBackoff == 2        \* largest backoff_s, in seconds
MaxIngestTextLen == 2  \* longest document that is ingested
MaxRounds == 2         \* ingestions of the same document, one after the other
MaxLibOps == 3         \* calls of upsert_prompt and delete_prompt in a row
MaxSseLines == 4       \* lines of a stream of contents, [DONE] and junk
MaxOddLines == 2       \* lines of a stream of any of the lines tried
MaxQuotes == 2         \* items of an evidence_quotes array
MaxNodes == 2          \* source_nodes of a response
MaxPrompts == 2        \* prompts submitted in one session
MaxChunks == MaxTextLen      \* cap on len(chunks) for runs that never end

\* -------------------------------------------------------------- characters
SP == " "
LF == "\n"
CR == "\r"
Letters == <<"a", "b", "c", "d", "e", "f", "g", "h", "i", "j">>
LabelText(f) == [i \in DOMAIN f |-> IF f[i] = "L" THEN Letters[i] ELSE f[i]]

Min(a, b) == IF a <= b THEN a ELSE b
Max(a, b) == IF a >= b THEN a ELSE b

\* ------------------------------------------------------ Python str helpers
\* str.strip() with no argument removes leading and trailing whitespace.
\* Faulty variant of IsSpace: only the space character counts, as in strip(" ").
IsSpace_SpaceOnly(c) == c = SP

IsSpace(c) == c \in {SP, LF, CR}

RECURSIVE LStrip(_)
LStrip(s) == IF s # <<>> /\ IsSpace(Head(s)) THEN LStrip(Tail(s)) ELSE s

RECURSIVE RStrip(_)
RStrip(s) ==
  IF s # <<>> /\ IsSpace(s[Len(s)]) THEN RStrip(SubSeq(s, 1, Len(s) - 1)) ELSE s

Strip(s) == RStrip(LStrip(s))

\* s[start:end] with Python's treatment of negative and out-of-range indices.
SliceIndex(i, n) == IF i < 0 THEN Max(0, i + n) ELSE Min(i, n)

PySlice(s, start, end) ==
  SubSeq(s, SliceIndex(start, Len(s)) + 1, SliceIndex(end, Len(s)))

\* "\n\n".join(parts)
RECURSIVE JoinBlank(_)
JoinBlank(parts) ==
  IF parts = <<>> THEN <<>>
  ELSE IF Len(parts) = 1 THEN parts[1]
  ELSE parts[1] \o <<LF, LF>> \o JoinBlank(Tail(parts))

\* "".join(parts)
RECURSIVE Concat(_)
Concat(parts) == IF parts = <<>> THEN <<>> ELSE Head(parts) \o Concat(Tail(parts))

\* Faulty variant of ReplaceCRLF: the first replace is left out, so that the
\* second turns "\r\n" into two newlines.
ReplaceCRLF_LeftOut(s) == s

\* text.replace("\r\n", "\n").replace("\r", "\n")
RECURSIVE ReplaceCRLF(_)
ReplaceCRLF(s) ==
  IF s = <<>> THEN <<>>
  ELSE IF Len(s) >= 2 /\ s[1] = CR /\ s[2] = LF
    THEN <<LF>> \o ReplaceCRLF(SubSeq(s, 3, Len(s)))
  ELSE <<Head(s)>> \o ReplaceCRLF(Tail(s))

ReplaceCR(s) == [i \in DOMAIN s |-> IF s[i] = CR THEN LF ELSE s[i]]

\* t.split("\n\n"): left-to-right, non-overlapping separators.
RECURSIVE SplitBlank(_, _)
SplitBlank(s, cur) ==
  IF s = <<>> THEN <<cur>>
  ELSE IF Len(s) >= 2 /\ s[1] = LF /\ s[2] = LF
    THEN <<cur>> \o SplitBlank(SubSeq(s, 3, Len(s)), <<>>)
  ELSE SplitBlank(Tail(s), Append(cur, Head(s)))

NonEmpty(s) == s # <<>>

StripAll(parts) == [i \in DOMAIN parts |-> Strip(parts[i])]

iter_paragraphs(t) ==
  SelectSeq(StripAll(SplitBlank(ReplaceCR(ReplaceCRLF(t)), <<>>)), NonEmpty)

\* ------------------------------------------------------------- chunk_text
\* Faulty variant of Extra: the separator is not counted.
Extra_NoSeparator(b, p) == Len(p)

\* extra = (2 if buf else 0) + len(para)
Extra(b, p) == (IF b # <<>> THEN 2 ELSE 0) + Len(p)

\* Faulty variant of Fits: a paragraph never joins a buffer that holds one.
Fits_OnePerChunk(bl, extra, mc) == bl = 0 /\ extra <= mc

\* Faulty variant of Fits: a buffer that would be exactly full is flushed.
Fits_Strict(bl, extra, mc) == bl + extra < mc

\* if buf_len + extra <= max_chars
Fits(bl, extra, mc) == bl + extra <= mc

\* flush_buf(): the chunk list after flushing buffer b.
flush_buf(cs, b) == IF b # <<>> THEN Append(cs, Strip(JoinBlank(b))) ELSE cs

\* end = min(start + max_chars, len(para))
SliceEnd(st, mc, p) == Min(st + mc, Len(p))

\* piece = para[start:end].strip()
Piece(p, st, en) == Strip(PySlice(p, st, en))

\* Faulty variant of LoopBreaks: the loop stops one character early.
LoopBreaks_Early(en, p) == en >= Len(p) - 1

\* if end >= len(para): break
LoopBreaks(en, p) == en >= Len(p)

\* Faulty variants of NextStart: no hard overlap; one character too much overlap.
NextStart_NoOverlap(en, oc) == Max(0, en)

NextStart_OffByOne(en, oc) == Max(0, en - oc - 1)

\* start = max(0, end - overlap_chars)
NextStart(en, oc) == Max(0, en - oc)

\* Faulty variant of PrevTail: the whole chunk before is carried over.
PrevTail_WholeChunk(c, oc) == c

\* prev_tail = c[-overlap_chars:] if len(c) > overlap_chars else c
PrevTail(c, oc) == IF Len(c) > oc THEN PySlice(c, 0 - oc, Len(c)) ELSE c

\* Faulty variant of Overlapped: prev_tail is taken from the chunk as already prefixed.
RECURSIVE Overlapped_Chained(_, _, _)
Overlapped_Chained(cs, pt, oc) ==
  IF cs = <<>> THEN <<>>
  ELSE LET out == IF pt # <<>> THEN Strip(pt \o <<LF, LF>> \o Head(cs)) ELSE Head(cs)
       IN <<out>> \o Overlapped_Chained(Tail(cs), PrevTail(out, oc), oc)

\* The loop "for c in chunks" of the soft-overlap pass, from prev_tail = pt.
RECURSIVE Overlapped(_, _, _)
Overlapped(cs, pt, oc) ==
  IF cs = <<>> THEN <<>>
  ELSE <<IF pt # <<>> THEN Strip(pt \o <<LF, LF>> \o Head(cs)) ELSE Head(cs)>>
       \o Overlapped(Tail(cs), PrevTail(Head(cs), oc), oc)

\* if overlap_chars > 0 and len(chunks) > 1: chunks = overlapped
SoftOverlap(cs, oc) == IF oc > 0 /\ Len(cs) > 1 THEN Overlapped(cs, <<>>, oc) ELSE cs

NotBlank(c) == Strip(c) # <<>>

\* return [c for c in chunks if c.strip()]
Returned(cs) == SelectSeq(cs, NotBlank)

\* ------------------------------------------------------------ make_doc_id
Digits == <<"0", "1", "2", "3", "4", "5", "6", "7", "8", "9">>

\* str(n) of a non-negative int, as the f-string formats chunk_index.
RECURSIVE Str(_)
Str(n) == IF n < 10 THEN <<Digits[n + 1]>>
          ELSE Str(n \div 10) \o <<Digits[(n % 10) + 1]>>

\* Faulty variant of CanonicalName: the "#chunk=" separator is left out.
CanonicalName_NoSeparator(file_abs, chunk_index) ==
  <<"f", "i", "l", "e", ":", "/", "/">> \o file_abs \o Str(chunk_index)

\* f"file://{file_abs}#chunk={chunk_index}"
CanonicalName(file_abs, chunk_index) ==
  <<"f", "i", "l", "e", ":", "/", "/">> \o file_abs
    \o <<"#", "c", "h", "u", "n", "k", "=">> \o Str(chunk_index)

\* uuid.uuid5(namespace, name): a hash of (namespace, name), taken to be
\* collision-free, so that it is represented by the pair it hashes.
uuid5(namespace, name) == [namespace |-> namespace, name |-> name]

make_doc_id(file_abs, chunk_index) ==
  uuid5("NAMESPACE_URL", CanonicalName(file_abs, chunk_index))

\* -------------------------------------------------------- build_documents
Cwd == <<"/", "w">>
FilePaths == {<<"d", "/", "b">>}
LogicalNames == {<<"a">>}
VirtualPrefix == <<"v", "i", "r", "t", "u", "a", "l", ":", "/", "/", "s", "t", "r",
                   "e", "a", "m", "l", "i", "t", "/">>
Clock == {1, 2}
ExtraChoices ==
  { <<>>,
    [index_name |-> <<"i">>],
    [chunk_index |-> 7, chunk_count |-> 9, filename |-> <<"x">>] }

\* os.path.abspath(p)
abspath(p) == IF p # <<>> /\ p[1] = "/" THEN p ELSE Cwd \o <<"/">> \o p

\* os.path.basename(p)
RECURSIVE basename(_)
basename(p) ==
  IF \E i \in DOMAIN p : p[i] = "/"
    THEN basename(Tail(p))
    ELSE p

\* d.update(e) on dicts: e's entries win.
Update(d, e) == e @@ d

\* meta_base / base_metadata, after "if extra_metadata: ....update(extra_metadata)"
MetaBase(filename, path, now, extra) ==
  Update([source_type |-> <<"t", "x", "t">>, filename |-> filename,
          path |-> path, ingested_at |-> now],
         extra)

\* Faulty variant of ChunkMeta: keys already in meta_base are kept (setdefault).
ChunkMeta_ExtraWins(meta_base, i, n) ==
  Update([chunk_index |-> i, chunk_count |-> n], meta_base)

\* md = dict(meta_base); md["chunk_index"] = i; md["chunk_count"] = len(chunks)
ChunkMeta(meta_base, i, n) ==
  Update(meta_base, [chunk_index |-> i, chunk_count |-> n])

\* Faulty variant of Documents: the id is salted with the time of ingestion.
Documents_ClockInId(cs, ident, meta_base) ==
  [k \in DOMAIN cs |->
     [doc_id |-> make_doc_id(ident \o <<"@">> \o Str(meta_base.ingested_at), k - 1),
      text |-> cs[k],
      metadata |-> ChunkMeta(meta_base, k - 1, Len(cs))]]

\* docs, built by "for i, chunk in enumerate(chunks)"
Documents(cs, ident, meta_base) ==
  [k \in DOMAIN cs |->
     [doc_id |-> make_doc_id(ident, k - 1), text |-> cs[k],
      metadata |-> ChunkMeta(meta_base, k - 1, Len(cs))]]

\* ----------------------------------------------- request_json_with_retries
Methods == {"GET", "post", "PUT"}
Urls == {"http://rag/indexes/i/documents"}
Payloads == {"None", "documents"}
Queries == {"None", "limit=1"}
Statuses == {200, 399, 400, 500}
Bodies == {"{}", "", "oops"}

\* method.upper().strip()
UpperStrip(method) == IF method = "post" THEN "POST" ELSE method

\* What requests.post / requests.get give back: a response, or an exception
\* (no connection, timeout).
Responses ==
  [kind : {"response"}, status : Statuses, text : Bodies]
    \cup {[kind |-> "exception", status |-> 0, text |-> ""]}

\* What one attempt puts on the wire: POST sends the payload as JSON, GET
\* sends the query parameters.
Request(c) ==
  IF UpperStrip(c.method) = "POST"
    THEN [method |-> "POST", url |-> c.url, json |-> c.payload, params |-> "None"]
    ELSE [method |-> "GET", url |-> c.url, json |-> "None", params |-> c.params]

\* Faulty variant of IsHttpError: status 400 itself passes.
IsHttpError_Above400(status) == status > 400

\* if resp.status_code >= 400: raise RuntimeError(...)
IsHttpError(status) == status >= 400

\* The exception the try block ends with, for an answer that is not returned.
ErrorOf(resp) ==
  IF resp.kind = "exception"
    THEN [type |-> "RequestException", status |-> 0, text |-> ""]
    ELSE [type |-> "RuntimeError", status |-> resp.status, text |-> resp.text]

\* try: return resp.json() / except Exception: return {"raw": resp.text}
JsonOrRaw(resp) ==
  IF resp.text = "{}" THEN [kind |-> "json", body |-> resp.text]
  ELSE [kind |-> "raw", body |-> resp.text]

\* Faulty variant of SleepSeconds: the same wait after every failure.
SleepSeconds_Constant(backoff_s, k) == backoff_s

\* time.sleep(backoff_s * attempt)
SleepSeconds(backoff_s, k) == backoff_s * k

NoRequest == [method |-> "None", url |-> "None", json |-> "None", params |-> "None"]
NoResponse == [kind |-> "None", status |-> 0, text |-> ""]
NoError == [type |-> "None", status |-> 0, text |-> ""]
NoCall == [method |-> "None", url |-> "None", payload |-> "None", params |-> "None",
           retries |-> 0, backoff_s |-> 0]
NoOutcome == [kind |-> "none", value |-> [kind |-> "None", body |-> ""],
              error |-> [type |-> "None", cause |-> NoError]]
Returns(value) == [kind |-> "return", value |-> value,
                   error |-> [type |-> "None", cause |-> NoError]]
Raises(type, cause) == [kind |-> "raise", value |-> [kind |-> "None", body |-> ""],
                        error |-> [type |-> type, cause |-> cause]]

\* -------------------------------------------------------------- ingestion
Callers == {"cli", "ingest_file", "ingest_raw_text"}
Modes == {"create", "update"}
IndexName == <<"i">>
CreateEndpoint == "index"
DocumentsEndpoint == "indexes/i/documents"

\* hashlib.sha256(text.encode("utf-8")).hexdigest(), taken to be
\* collision-free.
sha256_hex(t) == [sha256 |-> t]

\* {"text": text, "metadata": md}
CreateEntry(d) == [text |-> d.text, metadata |-> d.metadata]

\* Faulty variant of UpdateEntry: the digest is taken of the text and a
\* final newline.
UpdateEntry_HashWithNewline(d) ==
  [doc_id |-> d.doc_id, text |-> d.text, hash_value |-> sha256_hex(d.text \o <<LF>>),
   metadata |-> d.metadata]

\* {"doc_id": doc_id, "text": text, "hash_value": _sha256_hex(text), "metadata": md}
UpdateEntry(d) ==
  [doc_id |-> d.doc_id, text |-> d.text, hash_value |-> sha256_hex(d.text),
   metadata |-> d.metadata]

CreateRequest(ds) ==
  [endpoint |-> CreateEndpoint, index_name |-> IndexName,
   documents |-> [k \in DOMAIN ds |-> CreateEntry(ds[k])]]

UpdateRequest(ds) ==
  [endpoint |-> DocumentsEndpoint, index_name |-> IndexName,
   documents |-> [k \in DOMAIN ds |-> UpdateEntry(ds[k])]]

\* extra_metadata as cli, ingest_file and ingest_raw_text pass it on, the
\* user having given no metadata of their own.
IngestExtra(who, name) ==
  IF who = "ingest_raw_text"
    THEN [index_name |-> IndexName, filename |-> name, path |-> VirtualPrefix \o name]
    ELSE [index_name |-> IndexName]

\* The backend: it stores a document under the doc_id of the request and
\* under a fresh id of its own when the request gives none.
NoIndex == [exists |-> FALSE, next |-> 0, docs |-> <<>>]
EmptyIndex == [exists |-> TRUE, next |-> 0, docs |-> <<>>]

FreshId(n) == [namespace |-> "backend", name |-> Str(n)]

Stored(st, entries) ==
  [exists |-> TRUE,
   next |-> st.next + Len(entries),
   docs |-> st.docs \o
     [k \in DOMAIN entries |->
        [doc_id |-> IF "doc_id" \in DOMAIN entries[k] THEN entries[k].doc_id
                    ELSE FreshId(st.next + k),
         text |-> entries[k].text,
         metadata |-> entries[k].metadata]]]

Knows(st, id) == \E k \in DOMAIN st.docs : st.docs[k].doc_id = id

Updated(st, entries) ==
  [st EXCEPT !.docs =
     [k \in DOMAIN st.docs |->
        IF \E j \in DOMAIN entries : entries[j].doc_id = st.docs[k].doc_id
          THEN LET j == CHOOSE j \in DOMAIN entries : entries[j].doc_id = st.docs[k].doc_id
               IN [doc_id |-> entries[j].doc_id, text |-> entries[j].text,
                   metadata |-> entries[j].metadata]
          ELSE st.docs[k]]]

\* "not_found_documents" of the answer to an update.
NotFound(st, entries) ==
  LET Unknown(e) == ~Knows(st, e.doc_id)
      unknown == SelectSeq(entries, Unknown)
  IN [k \in DOMAIN unknown |-> [doc_id |-> unknown[k].doc_id]]

\* The answer to list_documents(limit=1, metadata_filter={"filename": name}).
Listed(st, name) ==
  LET Named(d) == d.metadata.filename = name
      named == SelectSeq(st.docs, Named)
  IN SubSeq(named, 1, Min(1, Len(named)))

\* What request_json_with_retries raises, as the words of its message:
\* "... HTTP {status} from {url}: {body}".
ErrorMessage(status, body) == <<"HTTP", status, "from", DocumentsEndpoint>> \o body

\* "HTTP 404" in str(e)
HasHttp404(msg) ==
  \E i \in 1..(Len(msg) - 1) : msg[i] = "HTTP" /\ msg[i + 1] = "404"

NotChecked == [kind |-> "none", documents |-> <<>>, status |-> "", body |-> <<>>]

\* What the filename check can get back from a backend in state st: its
\* answer for an index that exists, 404 for one that does not, or the
\* failure of a server or gateway in between.
CheckAnswers(st, name) ==
  { IF st.exists
      THEN [kind |-> "documents", documents |-> Listed(st, name), status |-> "200",
            body |-> <<>>]
      ELSE [kind |-> "error", documents |-> <<>>, status |-> "404",
            body |-> <<"no", "index">>],
    [kind |-> "error", documents |-> <<>>, status |-> "500", body |-> <<"oops">>],
    [kind |-> "error", documents |-> <<>>, status |-> "502",
     body |-> <<"upstream", "said", "HTTP", "404">>] }

NoResult == [status |-> "none", reason |-> ""]

\* What the documents endpoint can answer to an update in state st: under
\* "not_found_documents" the doc_ids it does not know, or only some of
\* them, alone or with one that was never submitted.
Stranger == [doc_id |-> FreshId(0)]
UpdateAnswers(st, entries) ==
  LET nf == NotFound(st, entries)
      Pick(S) ==
        LET F[k \in 0..Len(nf)] ==
              IF k = 0 THEN <<>>
              ELSE IF k \in S THEN Append(F[k - 1], nf[k]) ELSE F[k - 1]
        IN F[Len(nf)]
  IN { [answered |-> TRUE, not_found_documents |-> Pick(S) \o tail] :
         S \in SUBSET DOMAIN nf, tail \in {<<>>, <<Stranger>>} }
NoUpdateResult == [answered |-> FALSE, not_found_documents |-> <<>>]

\* Faulty variant of MissingDocs: every submitted document is taken as
\* missing.
MissingDocs_AllDocs(ds, not_found) == ds

\* missing_docs = [entry for entry in docs if entry[0] in missing_doc_ids]
MissingDocs(ds, not_found) ==
  LET IsMissing(d) == \E k \in DOMAIN not_found : not_found[k].doc_id = d.doc_id
  IN SelectSeq(ds, IsMissing)

\* --------------------------------------------------------- prompt library
MAX_PROMPT_SHORT_NAME == 15

\* ord(c) of the characters prompt names are made of.
Ord(c) == CASE c = SP -> 32 [] c = "B" -> 66 [] c = "a" -> 97 [] c = "b" -> 98
            [] OTHER -> 0

\* str.lower()
Lower(s) == [i \in DOMAIN s |-> IF s[i] = "B" THEN "b" ELSE s[i]]

\* s < t on str: by the first character that differs, a proper prefix first.
RECURSIVE StrLess(_, _)
StrLess(s, t) ==
  IF t = <<>> THEN FALSE
  ELSE IF s = <<>> THEN TRUE
  ELSE IF Head(s) # Head(t) THEN Ord(Head(s)) < Ord(Head(t))
  ELSE StrLess(Tail(s), Tail(t))

\* Faulty variant of SortKey: the names are compared as they are.
SortKey_CaseSensitive(item) == item.name

\* key=lambda item: item["name"].lower()
SortKey(item) == Lower(item.name)

\* list.sort(key=...): stable, ascending.
RECURSIVE SortRows(_)
SortRows(rows) ==
  IF rows = <<>> THEN <<>>
  ELSE LET last == rows[Len(rows)]
           front == SortRows(SubSeq(rows, 1, Len(rows) - 1))
           Before(r) == ~StrLess(SortKey(last), SortKey(r))
           After(r) == StrLess(SortKey(last), SortKey(r))
       IN SelectSeq(front, Before) \o <<last>> \o SelectSeq(front, After)

StripRow(row) ==
  [name |-> Strip(row.name), prompt |-> Strip(row.prompt),
   updated_at |-> Strip(row.updated_at)]

HasNameAndPrompt(row) == row.name # <<>> /\ row.prompt # <<>>

\* load_prompts(): the rows of the file, stripped, those without a name or a
\* prompt skipped, sorted.  The csv module returns the fields as written.
load_prompts(file) ==
  SortRows(SelectSeq([i \in DOMAIN file |-> StripRow(file[i])], HasNameAndPrompt))

\* _now_iso() at the n-th call.
now_iso(n) == <<"t">> \o Str(n)

\* save_prompts(prompts): the rows it writes.
save_prompts(prompts, n) ==
  LET Stamp(row) == [row EXCEPT !.updated_at = IF @ = <<>> THEN now_iso(n) ELSE @]
      stripped == SelectSeq([i \in DOMAIN prompts |-> StripRow(prompts[i])],
                            HasNameAndPrompt)
  IN SortRows([i \in DOMAIN stripped |-> Stamp(stripped[i])])

NoName == [is_none |-> TRUE, value |-> <<>>]

\* (original_name or target_name).strip()
OriginalOf(original_name, target_name) ==
  Strip(IF original_name.is_none \/ original_name.value = <<>>
          THEN target_name ELSE original_name.value)

HasName(prompts, nm) == \E i \in DOMAIN prompts : prompts[i].name = nm

\* What upsert_prompt raises for its arguments and the rows load_prompts()
\* returned; "" when it raises nothing.
UpsertError(name, prompt, original_name, prompts) ==
  LET target_name == Strip(name) IN
    IF target_name = <<>> THEN "Prompt short name is required"
    ELSE IF Len(target_name) > MAX_PROMPT_SHORT_NAME
      THEN "Prompt short name must be 15 characters or fewer"
    ELSE IF Strip(prompt) = <<>> THEN "Prompt text is required"
    ELSE IF /\ target_name # OriginalOf(original_name, target_name)
            /\ HasName(prompts, target_name)
      THEN "Prompt name already exists"
    ELSE ""

\* The list `updated` of upsert_prompt: the first row named original
\* replaced, or the new row appended.
Upserted(prompts, target_name, target_prompt, original, n) ==
  LET row == [name |-> target_name, prompt |-> target_prompt, updated_at |-> now_iso(n)]
      Matches == { i \in DOMAIN prompts : prompts[i].name = original }
  IN IF Matches = {} THEN Append(prompts, row)
     ELSE LET first == CHOOSE i \in Matches : \A j \in Matches : i <= j
          IN [i \in DOMAIN prompts |-> IF i = first THEN row ELSE prompts[i]]

\* Faulty variant of Remaining: the names are compared without regard to
\* case.
Remaining_IgnoreCase(prompts, target) ==
  LET Other(item) == Lower(item.name) # Lower(target) IN SelectSeq(prompts, Other)

\* remaining = [item for item in prompts if item["name"] != target]
Remaining(prompts, target) ==
  LET Other(item) == item.name # target IN SelectSeq(prompts, Other)

NoLibCall ==
  [op |-> "none", name |-> <<>>, prompt |-> <<>>, original_name |-> NoName,
   raised |-> "", returned |-> FALSE, before |-> <<>>]

\* ------------------------------------------------------------ SSE streams
\* JSON values: [t |-> "null"], [t |-> "num", v |-> 5], [t |-> "str", v |->
\* characters], [t |-> "list", v |-> sequence], [t |-> "dict", v |-> record].
JNull == [t |-> "null"]
JStr(chars) == [t |-> "str", v |-> chars]
JDict(fields) == [t |-> "dict", v |-> fields]
JList(items) == [t |-> "list", v |-> items]
Chunk(delta) == JDict([choices |-> JList(<<JDict([delta |-> delta])>>)])

\* The JSON texts tried, each written as one element of a line, with
\* json.loads() of each; whitespace around a JSON text is allowed, and
\* anything else raises JSONDecodeError (ok is FALSE).
JsonTexts ==
  { "{content:x}", "{content:y}", "{content:''}", "{content:5}", "{role}", "{}",
    "null", "{choices:[]}", "{choices:['s']}", "{choices:'s'}", "{delta:'s'}",
    "{finish}" }

json_loads(data) ==
  LET t == Strip(data) IN
  IF Len(t) # 1 \/ t[1] \notin JsonTexts THEN [ok |-> FALSE, obj |-> JNull]
  ELSE [ok |-> TRUE,
        obj |-> CASE t[1] = "{content:x}" -> Chunk(JDict([content |-> JStr(<<"x">>)]))
                  [] t[1] = "{content:y}" -> Chunk(JDict([content |-> JStr(<<"y">>)]))
                  [] t[1] = "{content:''}" -> Chunk(JDict([content |-> JStr(<<>>)]))
                  [] t[1] = "{content:5}" -> Chunk(JDict([content |-> [t |-> "num", v |-> 5]]))
                  [] t[1] = "{role}" -> Chunk(JDict([role |-> JStr(<<"a">>)]))
                  [] t[1] = "{}" -> JDict([id |-> JStr(<<"1">>)])
                  [] t[1] = "null" -> JNull
                  [] t[1] = "{choices:[]}" -> JDict([choices |-> JList(<<>>)])
                  [] t[1] = "{choices:['s']}" -> JDict([choices |-> JList(<<JStr(<<"s">>)>>)])
                  [] t[1] = "{choices:'s'}" -> JDict([choices |-> JStr(<<"s">>)])
                  [] t[1] = "{delta:'s'}" -> Chunk(JStr(<<"s">>))
                  [] OTHER -> JDict([choices |->
                                JList(<<JDict([finish_reason |-> JStr(<<"s">>)])>>)])]

\* bool(value)
Truthy(j) ==
  CASE j.t = "null" -> FALSE
    [] j.t = "num" -> j.v # 0
    [] j.t = "dict" -> TRUE
    [] OTHER -> j.v # <<>>

\* value.get(key): [raised |-> TRUE] stands for the AttributeError of a
\* value that is no dict.
JGet(j, key) ==
  IF j.t # "dict" THEN [raised |-> TRUE, value |-> JNull]
  ELSE [raised |-> FALSE, value |-> IF key \in DOMAIN j.v THEN j.v[key] ELSE JNull]

\* str(content)
PyStr(j) == IF j.t = "num" THEN Str(j.v) ELSE j.v

\* The second try block: <<text>> when it yields, <<>> when it continues.
DeltaText(obj) ==
  LET got == JGet(obj, "choices") IN
    IF got.raised \/ ~Truthy(got.value) THEN <<>>
    ELSE IF got.value.t # "list" THEN <<>>
    ELSE LET first == JGet(got.value.v[1], "delta") IN
      IF first.raised THEN <<>>
      ELSE IF ~Truthy(first.value) THEN <<>>
      ELSE LET content == JGet(first.value, "content") IN
        IF content.raised \/ ~Truthy(content.value) THEN <<>>
        ELSE <<PyStr(content.value)>>

DataPrefix == <<"d", "a", "t", "a", ":">>
Done == <<"[", "D", "O", "N", "E", "]">>

\* line.startswith("data:")
StartsWithData(line) ==
  Len(line) >= Len(DataPrefix) /\ SubSeq(line, 1, Len(DataPrefix)) = DataPrefix

\* Faulty variant of Data: the final strip() is left out.
Data_NotStripped(line) == SubSeq(line, Len(DataPrefix) + 1, Len(line))

\* data = line[len("data:") :].strip()
Data(line) == Strip(SubSeq(line, Len(DataPrefix) + 1, Len(line)))

\* ------------------------------------------------- groundedness validation
JNum(n) == [t |-> "num", v |-> n]

\* needle in hay
Contains(hay, needle) ==
  \E i \in 0..(Len(hay) - Len(needle)) : SubSeq(hay, i + 1, i + Len(needle)) = needle

\* json.loads(text) of a text in brackets: the array of the items between
\* the commas, each written as one element ("'a'" for the string "a", "1"
\* for the number); [ok |-> FALSE] when it is no JSON.
JsonAtoms == {"'a'", "'b'", "' '", "1"}
JsonAtom(a) ==
  CASE a = "'a'" -> JStr(<<"a">>) [] a = "'b'" -> JStr(<<"b">>)
    [] a = "' '" -> JStr(<<SP>>) [] OTHER -> JNum(1)
json_loads_array(text) ==
  LET inner == SubSeq(text, 2, Len(text) - 1)
      ok == /\ Len(text) >= 2 /\ text[1] = "[" /\ text[Len(text)] = "]"
            /\ \/ inner = <<>>
               \/ /\ Len(inner) % 2 = 1
                  /\ \A i \in DOMAIN inner :
                       IF i % 2 = 1 THEN inner[i] \in JsonAtoms ELSE inner[i] = ","
  IN [ok |-> ok,
      items |-> IF ok THEN [k \in 1..((Len(inner) + 1) \div 2) |-> JsonAtom(inner[2 * k - 1])]
                ELSE <<>>]

\* _to_string_list(value)
to_string_list(value) ==
  LET Str_(item) == Strip(PyStr(item))
      IsText(item) == item.t = "str" /\ Strip(item.v) # <<>>
      Stripped(items) == [k \in DOMAIN items |-> Str_(items[k])]
  IN IF value.t = "str"
       THEN LET text == Strip(value.v) IN
            IF text = <<>> THEN <<>>
            ELSE IF text[1] = "[" /\ text[Len(text)] = "]" /\ json_loads_array(text).ok
              THEN SelectSeq(Stripped(json_loads_array(text).items), NonEmpty)
            ELSE <<text>>
     ELSE IF value.t = "list" THEN Stripped(SelectSeq(value.v, IsText))
     ELSE <<>>

\* str(node.get("text", ""))
NodeText(node) == IF "text" \in DOMAIN node.v THEN PyStr(node.v.text) ELSE <<>>

IsDictNode(node) == node.t = "dict"

\* Faulty variant of SourceCorpus: only the first node is looked at.
SourceCorpus_FirstOnly(source_nodes) ==
  LET nodes == SelectSeq(source_nodes, IsDictNode)
  IN IF nodes = <<>> THEN <<>> ELSE NodeText(nodes[1])

\* source_corpus = "\n\n".join(source_texts)
SourceCorpus(source_nodes) ==
  LET nodes == SelectSeq(source_nodes, IsDictNode)
  IN JoinBlank([k \in DOMAIN nodes |-> NodeText(nodes[k])])

\* validation_errors, as the set of the messages appended.
ValidationErrors(raw, evidence_quotes, missing_quotes) ==
  (IF raw.t \notin {"null", "str", "list"}
     THEN {"evidence_quotes must be a string or an array of strings"} ELSE {})
  \cup (IF raw.t = "list" /\ \E k \in DOMAIN raw.v : raw.v[k].t # "str"
          THEN {"evidence_quotes array may only contain strings"} ELSE {})
  \cup (IF Len(evidence_quotes) = 0 THEN {"No evidence quotes were provided"} ELSE {})
  \cup (IF missing_quotes # <<>>
          THEN {"One or more evidence quotes were not found exactly in retrieved source text"}
          ELSE {})

NoValidation ==
  [returned |-> FALSE, applied |-> FALSE, failed_groundedness |-> FALSE,
   quotes_total |-> 0, quotes_matched |-> 0, missing_quotes |-> <<>>]

\* ------------------------------------------------------------------- chat
\* dict operations: d[k] = v, d.pop(k, None), d.update(e).
DictSet(d, k, v) == [x \in DOMAIN d \cup {k} |-> IF x = k THEN v ELSE d[x]]
DictPop(d, k) == [x \in DOMAIN d \ {k} |-> d[x]]
DictUpdate(d, e) == [x \in DOMAIN d \cup DOMAIN e |-> IF x \in DOMAIN e THEN e[x] ELSE d[x]]

\* {"role": "system", "content": "You are a helpful assistant."}
DefaultSystemMessage == [role |-> "system", content |-> <<"helpful">>]
GroundedInstruction == <<"grounded">>

\* _select_request_messages(messages=..., is_ragengine=...)
select_request_messages(msgs, is_ragengine) ==
  IF ~is_ragengine THEN msgs
  ELSE LET systems == { i \in DOMAIN msgs : msgs[i].role = "system" }
           users == { i \in DOMAIN msgs : msgs[i].role = "user" }
           first == CHOOSE i \in systems : \A j \in systems : i <= j
           last == CHOOSE i \in users : \A j \in users : j <= i
           selected == (IF systems = {} THEN <<>> ELSE <<msgs[first]>>)
                         \o (IF users = {} THEN <<>> ELSE <<msgs[last]>>)
       IN IF selected = <<>> THEN msgs ELSE selected

\* Faulty variant of apply_system_prompt_override: the override is put in
\* front and the system message of the history is sent as well.
apply_system_prompt_override_Added(msgs, system_prompt_override) ==
  IF Strip(system_prompt_override) = <<>> THEN msgs
  ELSE <<[role |-> "system", content |-> Strip(system_prompt_override)]>> \o msgs

\* _apply_system_prompt_override(messages=..., system_prompt_override=...)
apply_system_prompt_override(msgs, system_prompt_override) ==
  LET override == Strip(system_prompt_override)
      systems == { i \in DOMAIN msgs : msgs[i].role = "system" }
      new == [role |-> "system", content |-> override]
  IN IF override = <<>> THEN msgs
     ELSE IF systems = {} THEN <<new>> \o msgs
     ELSE LET first == CHOOSE i \in systems : \A j \in systems : i <= j
          IN [i \in DOMAIN msgs |-> IF i = first THEN new ELSE msgs[i]]

\* A text, by what _is_low_quality_answer looks at: len(stripped), whether
\* it starts with "/", whether it ends with "?", and its number of words.
NoText == [len |-> 0, slash |-> FALSE, question |-> FALSE, words |-> 0]

\* _is_low_quality_answer(text)
is_low_quality_answer(t) ==
  \/ t.len = 0
  \/ t.len < 40
  \/ t.slash
  \/ t.question /\ t.words < 14

\* _sidebar_config: extra_payload, from the Extra JSON payload, the
\* Generation controls and the RAGEngine rules.
SidebarExtraPayload(c) ==
  LET controls == DictSet(DictSet(c.extra_json, "temperature", c.temperature),
                          "max_tokens", c.max_tokens)
      unstreamed == DictPop(controls, "stream")
      indexed == IF "index_name" \in DOMAIN unstreamed THEN unstreamed
                 ELSE DictSet(unstreamed, "index_name", "rag_index")
      ratioed == IF "context_token_ratio" \in DOMAIN indexed THEN indexed
                 ELSE DictSet(indexed, "context_token_ratio", 5)
  IN IF ~c.is_ragengine THEN controls
     ELSE IF ratioed.max_tokens < c.rag_min_tokens
       THEN DictSet(ratioed, "max_tokens", c.rag_min_tokens)
     ELSE ratioed

\* _sidebar_config: rag_enforcement
RagEnforcement(c) ==
  [enabled |-> c.is_ragengine,
   effective_max_tokens |-> SidebarExtraPayload(c).max_tokens,
   auto_adjusted |-> c.is_ragengine /\ SidebarExtraPayload(c).max_tokens # c.max_tokens]

\* chat_completions(...): the JSON body of the POST.
ChatPayload(msgs, stream, extra_payload) ==
  LET payload == DictUpdate([model |-> "m",
                             messages |-> [i \in DOMAIN msgs |->
                                             [role |-> msgs[i].role,
                                              content |-> msgs[i].content]]],
                            extra_payload)
  IN IF stream THEN DictSet(payload, "stream", TRUE) ELSE payload

\* Faulty variant of EmptyRetryPayload: max_tokens is left as it is.
EmptyRetryPayload_TemperatureOnly(extra_payload) ==
  DictSet(extra_payload, "temperature", 0)

\* retry_extra_payload of the empty-response retry.
EmptyRetryPayload(extra_payload) ==
  DictSet(DictSet(extra_payload, "temperature", 0),
          "max_tokens", Max(256, extra_payload.max_tokens))

\* Faulty variant of NewChatMessages: the history is emptied.
NewChatMessages_Empty == <<>>

\* st.session_state.messages as _init_state and "New chat" set it.
NewChatMessages == <<DefaultSystemMessage>>

\* Texts the app puts in place of an answer, and json.dumps(parsed, indent=2)
\* of a validated answer: all of 40 characters or more.
FixedText == [len |-> 100, slash |-> FALSE, question |-> FALSE, words |-> 14]

\* retry_extra_payload of the low-quality retry.
LowQualityRetryPayload(extra_payload) == DictSet(extra_payload, "temperature", 0)

\* ------------------------------------------------------------------ state
VARIABLES
  raw,            \* the document: content of the file, or the pasted text
  max_chars,      \* --max-chars / "Max chars per chunk"
  overlap_chars,  \* --overlap-chars / "Overlap chars"
  entry,          \* who called: "chunk_text", "cli" (build_documents), "adapter"
  source,         \* file_abs, or the adapter's virtual_path
  pc,             \* position in build_documents / chunk_text
  text,           \* chunk_text's argument
  paras,          \* paragraphs _iter_paragraphs has still to yield
  chunks, buf, buf_len,
  para, start,    \* the long paragraph being hard-split and the loop's start
  docs,           \* the (doc_id, text, metadata) triples returned
  calls, ids,     \* make_doc_id: the arguments of the calls made, and the ids
  extra_metadata, \* build_documents: the extra_metadata argument of the call
  prev_run,       \* what the run before this one was given and returned
  call,           \* request_json_with_retries: the arguments of the call
  rpc,            \* its position: "idle", "call", "for", "except", "done"
  attempt,        \* the loop variable (0 before the first pass)
  last_err,
  trace,          \* the requests sent, with their answers, and the sleeps
  outcome,        \* what the call returned or raised
  caller,         \* who ingests: "cli", "ingest_file" or "ingest_raw_text"
  mode,           \* "create" or "update"
  ipc,            \* position in the ingestion: "begin", "check", "build",
                  \* "post", "fallback", "done"
  filename,       \* logical_filename / candidate_filename
  checked,        \* what list_documents answered to the filename check
  sent,           \* the POST requests of this ingestion
  missing_docs,   \* _update_with_create_fallback: the documents to create
  update_result,  \* _update_with_create_fallback: the answer to the update
  result,         \* what the ingestion returned or raised
  store,          \* the backend: the index and its documents
  history,        \* mode and result of the ingestions before this one
  library,        \* prompt_library.csv: its rows below the header
  lib_clock,      \* the calls of upsert_prompt and delete_prompt made so far
  lib_last,       \* the last of them: its arguments, the rows it found, its end
  sse_lines,      \* iter_sse_chat_delta_text: what resp.iter_lines() yields
  sse_pos,        \* the lines the for loop has taken
  sse_out,        \* the strings the generator has yielded
  sse_pc,         \* "idle", "for", or "returned"
  gv_in,          \* _apply_post_response_groundedness_validation: its arguments
  gv_out,         \* the validation it has returned
  cfg,            \* _sidebar_config: what the sidebar's controls are set to
  messages,       \* st.session_state.messages
  chat_pc,        \* main: "idle", "initial", "empty_retry", "quality",
                  \* "low_retry", "finish"
  request_messages,
  requests,       \* the chat_completions calls made for the prompt
  full_text,
  source_nodes,   \* resp_json.get("source_nodes"): "null", "empty" or "some"
  turns           \* the prompts submitted since the last New chat, and their end

chunkVars == <<raw, max_chars, overlap_chars, entry, source, pc, text, paras,
               chunks, buf, buf_len, para, start, docs>>
idVars == <<calls, ids>>
retryVars == <<call, rpc, attempt, last_err, trace, outcome>>
ingestVars == <<caller, mode, ipc, filename, checked, sent, missing_docs,
                update_result, result, store, history>>
netVars == <<retryVars, ingestVars>>
inputVars == <<raw, max_chars, overlap_chars>>
localVars == <<entry, source, text, paras, chunks, buf, buf_len, para, start, docs>>
docVars == <<chunkVars, idVars, extra_metadata, prev_run>>
libVars == <<library, lib_clock, lib_last>>
sseVars == <<sse_lines, sse_pos, sse_out, sse_pc>>
backVars == <<chunkVars, idVars, extra_metadata, prev_run, netVars>>
gvVars == <<gv_in, gv_out>>
chatVars == <<cfg, messages, chat_pc, request_messages, requests, full_text,
              source_nodes, turns>>
frontVars == <<libVars, sseVars, gvVars, chatVars>>
otherVars == <<prev_run, netVars, frontVars>>
vars == <<chunkVars, idVars, extra_metadata, otherVars>>

\* ---------------------------------------------------------------- inputs
Params == (0 - 1)..MaxChars
Overlaps == (0 - 1)..MaxOverlap

\* The texts of at most n characters, each a letter or one of kinds.
TextsOver(kinds, n) ==
  UNION { { LabelText(f) : f \in [1..m -> kinds \cup {"L"}] } : m \in 0..n }

Texts ==
  TextsOver({LF}, MaxTextLen) \cup TextsOver({SP, LF}, MaxSpacedTextLen)
    \cup TextsOver({CR, LF}, MaxSpacedTextLen)
DocTexts == { t \in Texts : Len(t) <= MaxDocTextLen }

\* Identifiers offered to make_doc_id: built from pieces that can imitate the
\* "#chunk=<index>" suffix of the canonical name.
IdentPieces == { <<"a">>, <<"1">>, <<"#", "c", "h", "u", "n", "k", "=">> }
Idents == UNION { { Concat(f) : f \in [1..m -> IdentPieces] } : m \in 0..MaxIdentPieces }
Indexes == 0..MaxIndex

\* ---------------------------------------------------------------- actions
\* build_documents(file_path, ...) up to its call of chunk_text.
build_documents ==
  /\ pc = "start"
  /\ \E file_path \in FilePaths : source' = abspath(file_path)
  /\ entry' = "cli"
  /\ text' = raw
  /\ paras' = iter_paragraphs(raw)
  /\ pc' = "for"
  /\ UNCHANGED <<raw, max_chars, overlap_chars, chunks, buf, buf_len, para,
                 start, docs, idVars,
                 extra_metadata, otherVars>>

\* _build_documents_from_text(text=..., logical_filename=..., ...) up to its
\* call of chunk_text, or its early return for blank content.
build_documents_from_text ==
  /\ pc = "start"
  /\ entry' = "adapter"
  /\ \E logical_filename \in LogicalNames :
       source' = VirtualPrefix \o logical_filename
  /\ LET content == Strip(raw) IN
       IF content = <<>>
         THEN /\ pc' = "built"
              /\ UNCHANGED <<text, paras>>
         ELSE /\ text' = content
              /\ paras' = iter_paragraphs(content)
              /\ pc' = "for"
  /\ UNCHANGED <<raw, max_chars, overlap_chars, chunks, buf, buf_len, para,
                 start, docs, idVars,
                 extra_metadata, otherVars>>

\* One pass of "for para in _iter_paragraphs(text)" for a paragraph that is
\* not longer than max_chars.
ForParagraph ==
  /\ pc = "for"
  /\ paras # <<>>
  /\ ~(Len(Head(paras)) > max_chars)
  /\ LET p == Head(paras)
         extra == Extra(buf, p)
     IN IF Fits(buf_len, extra, max_chars)
          THEN /\ buf' = Append(buf, p)
               /\ buf_len' = buf_len + extra
               /\ UNCHANGED chunks
          ELSE /\ chunks' = flush_buf(chunks, buf)
               /\ buf' = <<p>>
               /\ buf_len' = Len(p)
  /\ paras' = Tail(paras)
  /\ UNCHANGED <<raw, max_chars, overlap_chars, entry, source, pc, text, para,
                 start, docs, idVars,
                 extra_metadata, otherVars>>

\* The start of such a pass for a paragraph longer than max_chars.
ForLongParagraph ==
  /\ pc = "for"
  /\ paras # <<>>
  /\ Len(Head(paras)) > max_chars
  /\ chunks' = flush_buf(chunks, buf)
  /\ buf' = <<>>
  /\ buf_len' = 0
  /\ para' = Head(paras)
  /\ paras' = Tail(paras)
  /\ start' = 0
  /\ pc' = "while"
  /\ UNCHANGED <<raw, max_chars, overlap_chars, entry, source, text, docs, idVars,
                 extra_metadata, otherVars>>

\* One test of "while start < len(para)" and the loop body.
WhileStep ==
  /\ pc = "while"
  /\ Len(chunks) < MaxChunks
  /\ IF start < Len(para)
       THEN LET end == SliceEnd(start, max_chars, para)
                piece == Piece(para, start, end)
            IN /\ chunks' = IF piece # <<>> THEN Append(chunks, piece) ELSE chunks
               /\ IF LoopBreaks(end, para)
                    THEN /\ pc' = "for"
                         /\ UNCHANGED start
                    ELSE /\ start' = NextStart(end, overlap_chars)
                         /\ UNCHANGED pc
       ELSE /\ pc' = "for"
            /\ UNCHANGED <<chunks, start>>
  /\ UNCHANGED <<raw, max_chars, overlap_chars, entry, source, text, paras,
                 buf, buf_len, para, docs, idVars,
                 extra_metadata, otherVars>>

\* The for loop is exhausted: the final flush_buf().
EndFor ==
  /\ pc = "for"
  /\ paras = <<>>
  /\ chunks' = flush_buf(chunks, buf)
  /\ buf' = <<>>
  /\ buf_len' = 0
  /\ pc' = "overlap"
  /\ UNCHANGED <<raw, max_chars, overlap_chars, entry, source, text, paras,
                 para, start, docs, idVars,
                 extra_metadata, otherVars>>

\* The soft-overlap pass and the return statement of chunk_text.
OverlapAndReturn ==
  /\ pc = "overlap"
  /\ chunks' = Returned(SoftOverlap(chunks, overlap_chars))
  /\ pc' = "returned"
  /\ UNCHANGED <<raw, max_chars, overlap_chars, entry, source, text, paras,
                 buf, buf_len, para, start, docs, idVars,
                 extra_metadata, otherVars>>

\* The rest of build_documents / _build_documents_from_text, called with
\* extra_metadata = extra when the clock reads now.
BuildDocsWith(now, extra) ==
  /\ pc = "returned"
  /\ entry \in {"cli", "adapter"}
  /\ extra_metadata' = extra
  /\ docs' = Documents(chunks, source,
                       MetaBase(IF entry = "cli" THEN basename(source)
                                ELSE SubSeq(source, Len(VirtualPrefix) + 1, Len(source)),
                                source, now, extra))
  /\ pc' = "built"
  /\ UNCHANGED <<raw, max_chars, overlap_chars, entry, source, text, paras,
                 chunks, buf, buf_len, para, start, idVars>>

BuildDocs ==
  /\ \E now \in Clock, extra \in ExtraChoices : BuildDocsWith(now, extra)
  /\ UNCHANGED otherVars

\* The caller runs build_documents / _build_documents_from_text once more on
\* the same document with the same max_chars and overlap_chars.
RunAgain ==
  /\ pc = "built"
  /\ ~prev_run.ran
  /\ prev_run' = [ran |-> TRUE, source |-> source, text |-> text,
                  extra |-> extra_metadata, docs |-> docs]
  /\ pc' = "start"
  /\ entry' = "none"
  /\ source' = <<>>
  /\ text' = <<>>
  /\ paras' = <<>>
  /\ chunks' = <<>>
  /\ buf' = <<>>
  /\ buf_len' = 0
  /\ para' = <<>>
  /\ start' = 0
  /\ docs' = <<>>
  /\ extra_metadata' = <<>>
  /\ UNCHANGED <<raw, max_chars, overlap_chars, idVars, netVars, frontVars>>

\* A call make_doc_id(file_abs, chunk_index).
MakeDocId ==
  /\ Len(calls) < 2
  /\ \E file_abs \in Idents, chunk_index \in Indexes :
       /\ calls' = Append(calls, [file_abs |-> file_abs, chunk_index |-> chunk_index])
       /\ ids' = Append(ids, make_doc_id(file_abs, chunk_index))
  /\ UNCHANGED <<chunkVars, extra_metadata, otherVars>>

\* request_json_with_retries(method, url, ...): the method check.
request_json_with_retries ==
  /\ rpc = "call"
  /\ IF UpperStrip(call.method) \notin {"GET", "POST"}
       THEN /\ outcome' = Raises("ValueError", NoError)
            /\ rpc' = "done"
       ELSE /\ rpc' = "for"
            /\ UNCHANGED outcome
  /\ UNCHANGED <<call, attempt, last_err, trace, docVars, ingestVars, frontVars>>

\* One pass of "for attempt in range(1, retries + 1)" up to the end of the
\* try block: the request is sent and answered.
TryRequest ==
  /\ rpc = "for"
  /\ attempt + 1 <= call.retries
  /\ attempt' = attempt + 1
  /\ \E resp \in Responses :
       /\ trace' = Append(trace, [ev |-> "request", n |-> attempt + 1,
                                  req |-> Request(call), resp |-> resp])
       /\ IF resp.kind = "response" /\ ~IsHttpError(resp.status)
            THEN /\ outcome' = Returns(JsonOrRaw(resp))
                 /\ rpc' = "done"
                 /\ UNCHANGED last_err
            ELSE /\ last_err' = ErrorOf(resp)
                 /\ rpc' = "except"
                 /\ UNCHANGED outcome
  /\ UNCHANGED <<call, docVars, ingestVars, frontVars>>

\* except Exception as e: sleep and go round again, or break and raise.
ExceptBackoff ==
  /\ rpc = "except"
  /\ IF attempt < call.retries
       THEN /\ trace' = Append(trace, [ev |-> "sleep",
                                       n |-> SleepSeconds(call.backoff_s, attempt),
                                       req |-> NoRequest, resp |-> NoResponse])
            /\ rpc' = "for"
            /\ UNCHANGED outcome
       ELSE /\ outcome' = Raises("RuntimeError", last_err)
            /\ rpc' = "done"
            /\ UNCHANGED trace
  /\ UNCHANGED <<call, attempt, last_err, docVars, ingestVars, frontVars>>

\* range(1, retries + 1) is empty: the raise after the loop.
LoopExhausted ==
  /\ rpc = "for"
  /\ ~(attempt + 1 <= call.retries)
  /\ outcome' = Raises("RuntimeError", last_err)
  /\ rpc' = "done"
  /\ UNCHANGED <<call, attempt, last_err, trace, docVars, ingestVars, frontVars>>

\* cli(...) in create or update mode, up to its call of build_documents.
cli ==
  /\ ipc = "begin"
  /\ caller = "cli"
  /\ pc' = "start"
  /\ ipc' = "build"
  /\ UNCHANGED <<inputVars, localVars, idVars, extra_metadata, prev_run, retryVars, frontVars,
                 caller, mode, filename, checked, sent, missing_docs, update_result, result,
                 store, history>>

\* ingest_file(...), up to its call of build_documents.
ingest_file ==
  /\ ipc = "begin"
  /\ caller = "ingest_file"
  /\ pc' = "start"
  /\ ipc' = "build"
  /\ UNCHANGED <<inputVars, localVars, idVars, extra_metadata, prev_run, retryVars, frontVars,
                 caller, mode, filename, checked, sent, missing_docs, update_result, result,
                 store, history>>

\* ingest_raw_text(...), up to the filename check of create mode or the call
\* of _build_documents_from_text.
ingest_raw_text ==
  /\ ipc = "begin"
  /\ caller = "ingest_raw_text"
  /\ IF Strip(raw) = <<>>
       THEN /\ result' = [status |-> "raised", reason |-> "ValueError"]
            /\ ipc' = "done"
            /\ UNCHANGED <<pc, filename>>
       ELSE /\ \E logical_filename \in LogicalNames : filename' = logical_filename
            /\ IF mode = "create"
                 THEN ipc' = "check" /\ UNCHANGED pc
                 ELSE ipc' = "build" /\ pc' = "start"
            /\ UNCHANGED result
  /\ UNCHANGED <<inputVars, localVars, idVars, extra_metadata, prev_run, retryVars, frontVars,
                 caller, mode, checked, sent, missing_docs, update_result, store, history>>

\* _filename_exists_in_index(filename=...), and what its caller does with
\* the answer.
filename_exists_in_index ==
  /\ ipc = "check"
  /\ \E answer \in CheckAnswers(store, filename) :
       /\ checked' = answer
       /\ IF answer.kind = "error"
               /\ ~HasHttp404(ErrorMessage(answer.status, answer.body))
            THEN /\ result' = [status |-> "raised", reason |-> "RuntimeError"]
                 /\ ipc' = "done"
                 /\ UNCHANGED pc
            ELSE IF answer.kind = "documents" /\ Len(answer.documents) > 0
              THEN /\ result' = [status |-> "skipped", reason |-> "filename_exists"]
                   /\ ipc' = "done"
                   /\ UNCHANGED pc
              ELSE /\ UNCHANGED result
                   /\ IF caller = "ingest_raw_text"
                        THEN ipc' = "build" /\ pc' = "start"
                        ELSE ipc' = "post" /\ UNCHANGED pc
  /\ UNCHANGED <<inputVars, localVars, idVars, extra_metadata, prev_run, retryVars, frontVars,
                 caller, mode, filename, sent, missing_docs, update_result, store, history>>

\* build_documents(file_path, ...) as cli and ingest_file call it.
BuildFromFile ==
  /\ ipc = "build"
  /\ caller \in {"cli", "ingest_file"}
  /\ build_documents

\* _build_documents_from_text(text=content, logical_filename=...) as
\* ingest_raw_text calls it.
BuildFromText ==
  /\ ipc = "build"
  /\ caller = "ingest_raw_text"
  /\ build_documents_from_text
  /\ source' = VirtualPrefix \o filename

\* The rest of the build, with the metadata the caller passes on; ingest_file
\* in create mode then looks up the filename of the first document.
IngestBuildDocs ==
  /\ ipc = "build"
  /\ BuildDocsWith(Len(history) + 1, IngestExtra(caller, filename))
  /\ IF caller = "ingest_file" /\ mode = "create" /\ docs' # <<>>
          /\ docs'[1].metadata.filename # <<>>
       THEN ipc' = "check" /\ filename' = docs'[1].metadata.filename
       ELSE ipc' = "post" /\ UNCHANGED filename
  /\ UNCHANGED <<prev_run, retryVars, frontVars, caller, mode, checked, sent, missing_docs, update_result,
                 result, store, history>>

\* _post_create_documents(docs=docs) / the create branch of cli: the POST
\* is answered, or fails for good.
post_create_documents ==
  /\ ipc = "post"
  /\ mode = "create"
  /\ sent' = Append(sent, CreateRequest(docs))
  /\ \/ /\ store' = Stored(store, CreateRequest(docs).documents)
        /\ result' = [status |-> "created", reason |-> ""]
     \/ /\ result' = [status |-> "raised", reason |-> "RuntimeError"]
        /\ UNCHANGED store
  /\ ipc' = "done"
  /\ UNCHANGED <<chunkVars, idVars, extra_metadata, prev_run, retryVars, frontVars,
                 caller, mode, filename, checked, missing_docs, update_result, history>>

\* _post_update_documents(docs=docs) / the update branch of cli, and the
\* reading of "not_found_documents" in _update_with_create_fallback.
post_update_documents ==
  /\ ipc = "post"
  /\ mode = "update"
  /\ sent' = Append(sent, UpdateRequest(docs))
  /\ \/ /\ store.exists
        /\ store' = Updated(store, UpdateRequest(docs).documents)
        /\ \E answer \in UpdateAnswers(store, UpdateRequest(docs).documents) :
             LET not_found == answer.not_found_documents
                 missing == MissingDocs(docs, not_found)
             IN /\ update_result' = answer
                /\ IF caller = "cli" \/ not_found = <<>> \/ missing = <<>>
                     THEN /\ result' = [status |-> "updated", reason |-> ""]
                          /\ ipc' = "done"
                          /\ UNCHANGED missing_docs
                     ELSE /\ missing_docs' = missing
                          /\ ipc' = "fallback"
                          /\ UNCHANGED result
     \/ /\ result' = [status |-> "raised", reason |-> "RuntimeError"]
        /\ ipc' = "done"
        /\ UNCHANGED <<store, missing_docs, update_result>>
  /\ UNCHANGED <<chunkVars, idVars, extra_metadata, prev_run, retryVars, frontVars,
                 caller, mode, filename, checked, history>>

\* _update_with_create_fallback: _post_create_documents(docs=missing_docs).
create_fallback ==
  /\ ipc = "fallback"
  /\ sent' = Append(sent, CreateRequest(missing_docs))
  /\ \/ /\ store' = Stored(store, CreateRequest(missing_docs).documents)
        /\ result' = [status |-> "created", reason |-> "upsert_fallback_used"]
     \/ /\ result' = [status |-> "raised", reason |-> "RuntimeError"]
        /\ UNCHANGED store
  /\ ipc' = "done"
  /\ UNCHANGED <<chunkVars, idVars, extra_metadata, prev_run, retryVars, frontVars,
                 caller, mode, filename, checked, missing_docs, update_result, history>>

\* The same document is ingested once more, in either mode.
IngestAgain ==
  /\ ipc = "done"
  /\ Len(history) + 1 < MaxRounds
  /\ history' = Append(history, [mode |-> mode, status |-> result.status,
                                 answer |-> update_result])
  /\ \E m \in Modes : mode' = m
  /\ ipc' = "begin"
  /\ pc' = "idle"
  /\ entry' = "none"
  /\ source' = <<>>
  /\ text' = <<>>
  /\ paras' = <<>>
  /\ chunks' = <<>>
  /\ buf' = <<>>
  /\ buf_len' = 0
  /\ para' = <<>>
  /\ start' = 0
  /\ docs' = <<>>
  /\ extra_metadata' = <<>>
  /\ filename' = <<>>
  /\ checked' = NotChecked
  /\ sent' = <<>>
  /\ missing_docs' = <<>>
  /\ update_result' = NoUpdateResult
  /\ result' = NoResult
  /\ UNCHANGED <<inputVars, idVars, prev_run, retryVars, frontVars, caller, store>>

\* ----------------------------------------------------- prompt library calls
Rep(c, n) == [i \in 1..n |-> c]
PromptNames ==
  { <<SP>>, <<"a">>, <<SP, "a", SP>>, <<"B">>, <<"b">>,
    Rep("a", MAX_PROMPT_SHORT_NAME), Rep("a", MAX_PROMPT_SHORT_NAME + 1) }
PromptTexts == { <<SP>>, <<"p">>, <<SP, "q">> }
OriginalNames ==
  {NoName} \cup { [is_none |-> FALSE, value |-> n] :
                    n \in { <<>>, <<SP>>, <<SP, "a", SP>>, <<"b">> } }

\* upsert_prompt(name=..., prompt=..., original_name=...)
upsert_prompt ==
  /\ lib_clock < MaxLibOps
  /\ lib_clock' = lib_clock + 1
  /\ LET prompts == load_prompts(library) IN
       \E name \in PromptNames, prompt \in PromptTexts, original_name \in OriginalNames :
         LET error == UpsertError(name, prompt, original_name, prompts)
             target_name == Strip(name)
             updated == Upserted(prompts, target_name, Strip(prompt),
                                 OriginalOf(original_name, target_name), lib_clock')
         IN /\ library' = IF error # "" THEN library ELSE save_prompts(updated, lib_clock')
            /\ lib_last' = [op |-> "upsert_prompt", name |-> name, prompt |-> prompt,
                            original_name |-> original_name, raised |-> error,
                            returned |-> FALSE, before |-> library]
  /\ UNCHANGED <<backVars, sseVars, gvVars, chatVars>>

\* delete_prompt(name)
delete_prompt ==
  /\ lib_clock < MaxLibOps
  /\ lib_clock' = lib_clock + 1
  /\ \E name \in PromptNames :
       LET target == Strip(name)
           prompts == load_prompts(library)
           remaining == Remaining(prompts, target)
           deleted == target # <<>> /\ Len(remaining) # Len(prompts)
       IN /\ library' = IF deleted THEN save_prompts(remaining, lib_clock') ELSE library
          /\ lib_last' = [op |-> "delete_prompt", name |-> name, prompt |-> <<>>,
                          original_name |-> NoName, raised |-> "",
                          returned |-> deleted, before |-> library]
  /\ UNCHANGED <<backVars, sseVars, gvVars, chatVars>>

\* ------------------------------------------------- iter_sse_chat_delta_text
\* The lines tried: contents, [DONE] and junk, and then every JSON text, in
\* "data:" lines with and without spaces around the parts.
DataLine(lead, gap, body) == lead \o DataPrefix \o gap \o body
CoreLines ==
  { DataLine(<<>>, <<SP>>, <<"{content:x}">>), DataLine(<<>>, <<SP>>, <<"{content:y}">>),
    DataLine(<<>>, <<SP>>, Done), DataLine(<<>>, <<SP>>, <<"{">>), <<>>,
    <<"i", "d", ":", "1">> }
OddLines ==
  CoreLines
    \cup { DataLine(<<>>, <<SP>>, <<j>>) : j \in JsonTexts }
    \cup { DataLine(<<SP>>, <<>>, Done \o <<SP>>), DataLine(<<SP>>, <<>>, <<"{content:x}">>),
           <<SP>>, <<"d", "a", "t", "a", SP>>, DataLine(<<>>, <<>>, <<>>),
           DataLine(<<>>, <<SP>>, <<"{content:x}", "{content:y}">>) }
Streams ==
  UNION { [1..n -> CoreLines] : n \in 0..MaxSseLines }
    \cup UNION { [1..n -> OddLines] : n \in 0..MaxOddLines }

\* One pass of the for loop over resp.iter_lines(decode_unicode=True).
iter_sse_chat_delta_text ==
  /\ sse_pc = "for"
  /\ sse_pos < Len(sse_lines)
  /\ sse_pos' = sse_pos + 1
  /\ LET raw_line == sse_lines[sse_pos + 1]
         line == Strip(raw_line)
         parsed == json_loads(Data(line))
     IN IF raw_line = <<>> \/ ~StartsWithData(line)
          THEN UNCHANGED <<sse_out, sse_pc>>
        ELSE IF Data(line) = Done
          THEN sse_pc' = "returned" /\ UNCHANGED sse_out
        ELSE IF ~parsed.ok
          THEN UNCHANGED <<sse_out, sse_pc>>
        ELSE sse_out' = sse_out \o DeltaText(parsed.obj) /\ UNCHANGED sse_pc
  /\ UNCHANGED <<sse_lines, backVars, libVars, gvVars, chatVars>>

\* The stream has ended without [DONE].
SseExhausted ==
  /\ sse_pc = "for"
  /\ sse_pos = Len(sse_lines)
  /\ sse_pc' = "returned"
  /\ UNCHANGED <<sse_lines, sse_pos, sse_out, backVars, libVars, gvVars, chatVars>>

\* ----------------------------- _apply_post_response_groundedness_validation
\* The values of "evidence_quotes" tried (null stands for a missing key as
\* well), and the source_nodes.
QuoteItems ==
  { JStr(<<"a">>), JStr(<<SP, "a", SP>>), JStr(<<"b">>), JStr(<<SP>>),
    JStr(<<"a", LF, LF, "b">>), JNum(1), JNull }
QuoteTexts ==
  { <<>>, <<SP>>, <<"a">>, <<"b", SP>>, <<"[", "]">>, <<"[", "'a'", "]">>,
    <<"[", "'a'", ",", "1", "]">>, <<"[", "' '", ",", "'b'", "]">>, <<"[", "a", "]">> }
EvidenceQuotes ==
  { JNull, JNum(1), JDict([quote |-> JStr(<<"a">>)]) }
    \cup { JStr(t) : t \in QuoteTexts }
    \cup { JList(items) : items \in UNION { [1..n -> QuoteItems] : n \in 0..MaxQuotes } }
Nodes ==
  { JDict([text |-> JStr(<<"a">>)]), JDict([text |-> JStr(<<"b">>)]),
    JDict([text |-> JStr(<<"1", SP, "[", "a", "]">>)]), JDict([text |-> JNum(1)]),
    JDict([score |-> JNum(1)]), JStr(<<"a">>) }
SourceNodes == UNION { [1..n -> Nodes] : n \in 0..MaxNodes }

\* _apply_post_response_groundedness_validation(response_text=...,
\* source_nodes=..., user_prompt=...): the validation it returns.
apply_post_response_groundedness_validation ==
  /\ ~gv_out.returned
  /\ gv_in.called
  /\ LET raw_evidence_quotes == gv_in.evidence_quotes
         evidence_quotes == to_string_list(raw_evidence_quotes)
         source_corpus == SourceCorpus(gv_in.source_nodes)
         Missing(quote) == ~(Strip(quote) # <<>> /\ Contains(source_corpus, Strip(quote)))
         missing_quotes == SelectSeq(evidence_quotes, Missing)
         validation_errors ==
           ValidationErrors(raw_evidence_quotes, evidence_quotes, missing_quotes)
     IN gv_out' =
          IF ~gv_in.parsed THEN [NoValidation EXCEPT !.returned = TRUE]
          ELSE [returned |-> TRUE, applied |-> TRUE,
                failed_groundedness |-> Cardinality(validation_errors) > 0,
                quotes_total |-> Len(evidence_quotes),
                quotes_matched |-> Len(evidence_quotes) - Len(missing_quotes),
                missing_quotes |-> missing_quotes]
  /\ UNCHANGED <<gv_in, backVars, libVars, sseVars, chatVars>>

\* ------------------------------------------------------------------ main
\* What the sidebar can be set to.  temperature is in tenths.
ExtraJsons ==
  { [top_p |-> 9],
    [temperature |-> 15, max_tokens |-> 9, stream |-> TRUE, index_name |-> "other"],
    [messages |-> <<[role |-> "user", content |-> <<"x">>]>>] }
Configs ==
  { c \in [is_ragengine : BOOLEAN, stream : BOOLEAN, temperature : {0, 7},
           max_tokens : {100, 2048, 3000}, rag_min_tokens : {1, 2048},
           extra_json : ExtraJsons,
           system_prompt_override : {<<>>, <<"library">>}] :
      /\ c.is_ragengine => ~c.stream
      /\ ~c.is_ragengine => c.rag_min_tokens = 2048 }

\* What a response can give as its text, NoText when it has none, and as its
\* source_nodes.
ResponseTexts ==
  { NoText,
    [len |-> 39, slash |-> FALSE, question |-> FALSE, words |-> 5],
    [len |-> 40, slash |-> FALSE, question |-> FALSE, words |-> 5],
    [len |-> 40, slash |-> TRUE, question |-> FALSE, words |-> 5],
    [len |-> 60, slash |-> FALSE, question |-> TRUE, words |-> 13],
    [len |-> 60, slash |-> FALSE, question |-> TRUE, words |-> 14] }
SourceKinds == {"null", "empty", "some"}

ChatCall(kind, msgs, stream, extra_payload) ==
  [kind |-> kind, messages |-> msgs, stream |-> stream,
   payload |-> ChatPayload(msgs, stream, extra_payload)]

EndTurn(how) == [turns EXCEPT ![Len(turns)].ended = how]

\* main, from st.chat_input to the first chat_completions call.
Submit ==
  /\ chat_pc = "idle"
  /\ Len(turns) < MaxPrompts
  /\ LET prompt == <<"q">> \o Str(Len(messages))
         appended == Append(messages, [role |-> "user", content |-> prompt])
         selected == apply_system_prompt_override(
                       select_request_messages(appended, cfg.is_ragengine),
                       cfg.system_prompt_override)
     IN /\ messages' = appended
        /\ request_messages' = selected
        /\ requests' = <<ChatCall("initial", selected, cfg.stream, SidebarExtraPayload(cfg))>>
        /\ turns' = Append(turns, [prompt |-> prompt, ended |-> "running"])
  /\ full_text' = NoText
  /\ source_nodes' = "null"
  /\ chat_pc' = "initial"
  /\ UNCHANGED <<cfg, backVars, libVars, sseVars, gvVars>>

\* The first call raises, is answered with an error status, or (not
\* streamed) with a body that is no JSON: the except clauses of main.
InitialFails ==
  /\ chat_pc = "initial"
  /\ turns' = EndTurn("error")
  /\ chat_pc' = "idle"
  /\ UNCHANGED <<cfg, messages, request_messages, requests, full_text, source_nodes,
                 backVars, libVars, sseVars, gvVars>>

\* if cfg["stream"]: the chunks are put together and the answer is kept.
StreamedAnswer ==
  /\ chat_pc = "initial"
  /\ cfg.stream
  /\ \E reply \in ResponseTexts :
       /\ full_text' = reply
       /\ messages' = Append(messages, [role |-> "assistant", content |-> reply])
  /\ turns' = EndTurn("ok")
  /\ chat_pc' = "idle"
  /\ UNCHANGED <<cfg, request_messages, requests, source_nodes,
                 backVars, libVars, sseVars, gvVars>>

\* else: resp.json(), parse_chat_completion_text and, without reply and
\* without source_nodes, the call of the empty-response retry.
InitialAnswer ==
  /\ chat_pc = "initial"
  /\ ~cfg.stream
  /\ \E reply \in ResponseTexts, nodes \in SourceKinds :
       /\ source_nodes' = nodes
       /\ IF reply # NoText
            THEN full_text' = reply /\ chat_pc' = "quality" /\ UNCHANGED requests
          ELSE IF nodes = "some"
            THEN full_text' = FixedText /\ chat_pc' = "quality" /\ UNCHANGED requests
          ELSE /\ requests' = Append(requests,
                     ChatCall("empty_response_retry", request_messages, FALSE,
                              EmptyRetryPayload(SidebarExtraPayload(cfg))))
               /\ chat_pc' = "empty_retry"
               /\ UNCHANGED full_text
  /\ UNCHANGED <<cfg, messages, request_messages, turns, backVars, libVars, sseVars, gvVars>>

\* The empty-response retry is answered with a text, or fails in any way.
EmptyRetryAnswer ==
  /\ chat_pc = "empty_retry"
  /\ \/ \E reply \in ResponseTexts \ {NoText}, nodes \in SourceKinds :
          full_text' = reply /\ source_nodes' = nodes
     \/ full_text' = FixedText /\ UNCHANGED source_nodes
  /\ chat_pc' = "quality"
  /\ UNCHANGED <<cfg, messages, request_messages, requests, turns,
                 backVars, libVars, sseVars, gvVars>>

\* The test for the low-quality retry, and its call.
QualityCheck ==
  /\ chat_pc = "quality"
  /\ IF cfg.is_ragengine /\ source_nodes = "some" /\ is_low_quality_answer(full_text)
       THEN /\ requests' = Append(requests,
                  ChatCall("low_quality_response_retry",
                           apply_system_prompt_override(request_messages, GroundedInstruction),
                           FALSE, LowQualityRetryPayload(SidebarExtraPayload(cfg))))
            /\ chat_pc' = "low_retry"
       ELSE chat_pc' = "finish" /\ UNCHANGED requests
  /\ UNCHANGED <<cfg, messages, request_messages, full_text, source_nodes, turns,
                 backVars, libVars, sseVars, gvVars>>

\* The low-quality retry is answered, or fails in any way; its answer is
\* taken when it is not of low quality.
LowRetryAnswer ==
  /\ chat_pc = "low_retry"
  /\ \/ \E reply \in ResponseTexts \ {NoText}, nodes \in SourceKinds :
          IF is_low_quality_answer(reply) THEN UNCHANGED <<full_text, source_nodes>>
          ELSE full_text' = reply /\ source_nodes' = nodes
     \/ UNCHANGED <<full_text, source_nodes>>
  /\ chat_pc' = "finish"
  /\ UNCHANGED <<cfg, messages, request_messages, requests, turns,
                 backVars, libVars, sseVars, gvVars>>

\* The groundedness validation (which may put the validated JSON in place of
\* the answer), the source_nodes fallback (which may fail on a node that is
\* no dict), and the appending of the assistant message.
Finish ==
  /\ chat_pc = "finish"
  /\ \E validated \in IF source_nodes = "some" THEN {full_text, FixedText} ELSE {full_text} :
       IF cfg.is_ragengine /\ source_nodes = "some" /\ is_low_quality_answer(validated)
         THEN \/ \E reply \in {validated, FixedText} :
                   /\ full_text' = reply
                   /\ messages' = Append(messages, [role |-> "assistant", content |-> reply])
                   /\ turns' = EndTurn("ok")
              \/ /\ full_text' = validated
                 /\ turns' = EndTurn("error")
                 /\ UNCHANGED messages
         ELSE /\ full_text' = validated
              /\ messages' = Append(messages, [role |-> "assistant", content |-> validated])
              /\ turns' = EndTurn("ok")
  /\ chat_pc' = "idle"
  /\ UNCHANGED <<cfg, request_messages, requests, source_nodes,
                 backVars, libVars, sseVars, gvVars>>

\* The "New chat" button.
NewChat ==
  /\ chat_pc = "idle"
  /\ messages' = NewChatMessages
  /\ turns' = <<>>
  /\ UNCHANGED <<cfg, chat_pc, request_messages, requests, full_text, source_nodes,
                 backVars, libVars, sseVars, gvVars>>

\* --------------------------------------------------------- specifications
NoRetry ==
  /\ call = NoCall
  /\ rpc = "idle"
  /\ attempt = 0
  /\ last_err = NoError
  /\ trace = <<>>
  /\ outcome = NoOutcome

NoIngest ==
  /\ caller = "none"
  /\ mode = "none"
  /\ ipc = "idle"
  /\ filename = <<>>
  /\ checked = NotChecked
  /\ sent = <<>>
  /\ missing_docs = <<>>
  /\ update_result = NoUpdateResult
  /\ result = NoResult
  /\ store = NoIndex
  /\ history = <<>>

NoRun == [ran |-> FALSE, source |-> <<>>, text |-> <<>>, extra |-> <<>>, docs |-> <<>>]

Idle ==
  /\ entry = "none"
  /\ source = <<>>
  /\ text = <<>>
  /\ paras = <<>>
  /\ chunks = <<>>
  /\ buf = <<>>
  /\ buf_len = 0
  /\ para = <<>>
  /\ start = 0
  /\ docs = <<>>
  /\ extra_metadata = <<>>
  /\ prev_run = NoRun

NoLibrary ==
  /\ library = <<>>
  /\ lib_clock = 0
  /\ lib_last = NoLibCall

NoSse ==
  /\ sse_lines = <<>>
  /\ sse_pos = 0
  /\ sse_out = <<>>
  /\ sse_pc = "idle"

NoGv ==
  /\ gv_in = [called |-> FALSE, parsed |-> FALSE, evidence_quotes |-> JNull,
              source_nodes |-> <<>>]
  /\ gv_out = NoValidation

NoRequests ==
  /\ chat_pc = "idle"
  /\ request_messages = <<>>
  /\ requests = <<>>
  /\ full_text = NoText
  /\ source_nodes = "null"
  /\ turns = <<>>

NoChat ==
  /\ cfg = [is_ragengine |-> FALSE]
  /\ messages = <<>>
  /\ NoRequests

NoFrontend ==
  /\ NoLibrary
  /\ NoSse
  /\ NoGv
  /\ NoChat

\* Nothing is being chunked, requested or ingested.
Quiet ==
  /\ raw = <<>>
  /\ max_chars = 1
  /\ overlap_chars = 0
  /\ pc = "idle"
  /\ Idle
  /\ calls = <<>>
  /\ ids = <<>>
  /\ NoRetry
  /\ NoIngest

\* chunk_text(raw, max_chars=..., overlap_chars=...), from its first line.
Init ==
  /\ raw \in Texts
  /\ max_chars \in Params
  /\ overlap_chars \in Overlaps
  /\ entry = "chunk_text"
  /\ source = <<>>
  /\ pc = "for"
  /\ text = raw
  /\ paras = iter_paragraphs(raw)
  /\ chunks = <<>>
  /\ buf = <<>>
  /\ buf_len = 0
  /\ para = <<>>
  /\ start = 0
  /\ docs = <<>>
  /\ calls = <<>>
  /\ ids = <<>>
  /\ extra_metadata = <<>>
  /\ prev_run = NoRun
  /\ NoRetry
  /\ NoIngest
  /\ NoFrontend

Next ==
  \/ ForParagraph
  \/ ForLongParagraph
  \/ WhileStep
  \/ EndFor
  \/ OverlapAndReturn

Spec == Init /\ [][Next]_vars

\* chunk_text called with the parameters its contract asks for.  The
\* interpreter keeps running the call: no step is postponed forever.
ValidInit ==
  /\ Init
  /\ Len(raw) <= MaxValidTextLen
  /\ max_chars > 0 /\ 0 <= overlap_chars /\ overlap_chars < max_chars

ValidSpec == ValidInit /\ [][Next]_vars /\ WF_vars(Next)

\* chunk_text called with a pair of parameters the Document Ingestion page
\* lets through: max_chars from its minimum up, overlap_chars from 0 up to a
\* maximum that lies above the least max_chars.
PageInit ==
  /\ Init
  /\ Len(raw) <= MaxValidTextLen
  /\ max_chars >= 1 /\ overlap_chars >= 0

PageSpec == PageInit /\ [][Next]_vars /\ WF_vars(Next)

\* A document taken through build_documents or the adapter.
DocInit ==
  /\ raw \in DocTexts
  /\ max_chars \in Params
  /\ overlap_chars \in Overlaps
  /\ pc = "start"
  /\ Idle
  /\ calls = <<>>
  /\ ids = <<>>
  /\ NoRetry
  /\ NoIngest
  /\ NoFrontend

DocNext ==
  \/ build_documents
  \/ build_documents_from_text
  \/ ForParagraph
  \/ ForLongParagraph
  \/ WhileStep
  \/ EndFor
  \/ OverlapAndReturn
  \/ BuildDocs

DocSpec == DocInit /\ [][DocNext]_vars

\* A document that is built, and then built again.
RerunInit ==
  /\ DocInit
  /\ raw \in TextsOver({LF}, MaxRerunTextLen)

RerunNext ==
  \/ build_documents
  \/ build_documents_from_text
  \/ ForParagraph
  \/ ForLongParagraph
  \/ WhileStep
  \/ EndFor
  \/ OverlapAndReturn
  \/ BuildDocs
  \/ RunAgain

RerunSpec == RerunInit /\ [][RerunNext]_vars

\* Two calls of make_doc_id.
IdInit ==
  /\ raw = <<>>
  /\ max_chars = 1
  /\ overlap_chars = 0
  /\ pc = "idle"
  /\ Idle
  /\ calls = <<>>
  /\ ids = <<>>
  /\ NoRetry
  /\ NoIngest
  /\ NoFrontend

IdNext == MakeDocId

IdSpec == IdInit /\ [][IdNext]_vars

\* One call of request_json_with_retries.
RetryInit ==
  /\ call \in [method : Methods, url : Urls, payload : Payloads, params : Queries,
                retries : (0 - 1)..MaxRetries, backoff_s : 1..MaxBackoff]
  /\ rpc = "call"
  /\ attempt = 0
  /\ last_err = NoError
  /\ trace = <<>>
  /\ outcome = NoOutcome
  /\ raw = <<>>
  /\ max_chars = 1
  /\ overlap_chars = 0
  /\ pc = "idle"
  /\ Idle
  /\ calls = <<>>
  /\ ids = <<>>
  /\ NoIngest
  /\ NoFrontend

RetryNext ==
  \/ request_json_with_retries
  \/ TryRequest
  \/ ExceptBackoff
  \/ LoopExhausted

RetrySpec == RetryInit /\ [][RetryNext]_vars

\* A document ingested by the CLI or through the adapter, MaxRounds times at
\* most, into an index that may or may not exist yet.
IngestInit ==
  /\ raw \in TextsOver({LF}, MaxIngestTextLen)
  /\ max_chars \in 1..MaxChars
  /\ overlap_chars = 0
  /\ pc = "idle"
  /\ Idle
  /\ calls = <<>>
  /\ ids = <<>>
  /\ NoRetry
  /\ NoFrontend
  /\ caller \in Callers
  /\ mode \in Modes
  /\ ipc = "begin"
  /\ filename = <<>>
  /\ checked = NotChecked
  /\ sent = <<>>
  /\ missing_docs = <<>>
  /\ update_result = NoUpdateResult
  /\ result = NoResult
  /\ store \in {NoIndex, EmptyIndex}
  /\ history = <<>>

IngestNext ==
  \/ cli
  \/ ingest_file
  \/ ingest_raw_text
  \/ filename_exists_in_index
  \/ BuildFromFile
  \/ BuildFromText
  \/ ForParagraph
  \/ ForLongParagraph
  \/ WhileStep
  \/ EndFor
  \/ OverlapAndReturn
  \/ IngestBuildDocs
  \/ post_create_documents
  \/ post_update_documents
  \/ create_fallback
  \/ IngestAgain

IngestSpec == IngestInit /\ [][IngestNext]_vars

TypeOK ==
  /\ pc \in {"idle", "start", "for", "while", "overlap", "returned", "built"}
  /\ entry \in {"none", "chunk_text", "cli", "adapter"}
  /\ start \in Nat
  /\ Len(calls) = Len(ids)

\* The prompt library, from the empty file ensure_prompt_library_file() makes.
LibraryInit ==
  /\ Quiet
  /\ NoFrontend

LibraryNext ==
  \/ upsert_prompt
  \/ delete_prompt

LibrarySpec == LibraryInit /\ [][LibraryNext]_vars

\* iter_sse_chat_delta_text(resp), consumed to its end.
SseInit ==
  /\ Quiet
  /\ NoLibrary
  /\ NoGv
  /\ NoChat
  /\ sse_lines \in Streams
  /\ sse_pos = 0
  /\ sse_out = <<>>
  /\ sse_pc = "for"

SseNext ==
  \/ iter_sse_chat_delta_text
  \/ SseExhausted

SseSpec == SseInit /\ [][SseNext]_vars

\* _apply_post_response_groundedness_validation on an answer that holds a
\* JSON object (parsed) or none.
GroundInit ==
  /\ Quiet
  /\ NoLibrary
  /\ NoSse
  /\ NoChat
  /\ gv_in \in [called : {TRUE}, parsed : BOOLEAN, evidence_quotes : EvidenceQuotes,
                source_nodes : SourceNodes]
  /\ gv_out = NoValidation

GroundNext == apply_post_response_groundedness_validation

GroundSpec == GroundInit /\ [][GroundNext]_vars

\* A session of the chat page: _init_state, then prompts and New chat.
ChatInit ==
  /\ Quiet
  /\ NoLibrary
  /\ NoSse
  /\ NoGv
  /\ cfg \in Configs
  /\ messages = <<DefaultSystemMessage>>
  /\ NoRequests

ChatNext ==
  \/ Submit
  \/ InitialFails
  \/ StreamedAnswer
  \/ InitialAnswer
  \/ EmptyRetryAnswer
  \/ QualityCheck
  \/ LowRetryAnswer
  \/ Finish
  \/ NewChat

ChatSpec == ChatInit /\ [][ChatNext]_vars

\* -------------------------------------------------------------- properties
Paragraphs == iter_paragraphs(text)

\* The last n characters of c (all of c when it is shorter), n > 0.
LastChars(c, n) == [i \in 1..Min(n, Len(c)) |-> c[Len(c) - Min(n, Len(c)) + i]]

\* s without its whitespace characters.
RECURSIVE NoSpace(_)
NoSpace(s) ==
  IF s = <<>> THEN <<>>
  ELSE IF Head(s) \in {SP, LF, CR} THEN NoSpace(Tail(s))
  ELSE <<Head(s)>> \o NoSpace(Tail(s))

AllWhitespace(s) == \A i \in DOMAIN s : s[i] \in {SP, LF, CR}

\* C1: with overlap_chars = 0 and max_chars > 0, every chunk chunk_text
\* returns has at most max_chars characters.
C1_ChunksWithinMax ==
  (pc = "returned" /\ overlap_chars = 0 /\ max_chars > 0)
    => \A i \in DOMAIN chunks : Len(chunks[i]) <= max_chars

\* C1 witness: a call without overlap returned three or more chunks, one of
\* them exactly max_chars long, after hard-splitting a long paragraph.
C1_Witness ==
  /\ pc = "returned" /\ overlap_chars = 0 /\ max_chars > 1
  /\ para # <<>>
  /\ Len(chunks) >= 3
  /\ \E i \in DOMAIN chunks : Len(chunks[i]) = max_chars

\* The hard-split slices of paragraph p: slice k (from 0) starts at
\* k * (max_chars - overlap_chars) and has at most max_chars characters; the
\* last slice is the first one that reaches the end of p.
SliceCount(p, mc, oc) ==
  CHOOSE n \in 1..Len(p) :
    /\ (n - 1) * (mc - oc) + mc >= Len(p)
    /\ \A m \in 1..(n - 1) : (m - 1) * (mc - oc) + mc < Len(p)

HardSlices(p, mc, oc) ==
  [k \in 1..SliceCount(p, mc, oc) |->
     SubSeq(p, (k - 1) * (mc - oc) + 1, Min((k - 1) * (mc - oc) + mc, Len(p)))]

SingleLongParagraph ==
  /\ Len(Paragraphs) = 1
  /\ Len(Paragraphs[1]) > max_chars
  /\ 0 < overlap_chars /\ overlap_chars < max_chars

\* C2, as claimed: for a single paragraph longer than max_chars, with
\* 0 < overlap_chars < max_chars, chunk_text returns exactly the hard-split
\* slices, with nothing added to them.
C2_ExactlyHardSlices ==
  (pc = "returned" /\ SingleLongParagraph)
    => chunks = HardSlices(Paragraphs[1], max_chars, overlap_chars)

\* What the soft-overlap pass makes of the trimmed, non-empty slices.
TrimmedSlices(p, mc, oc) == SelectSeq([k \in DOMAIN HardSlices(p, mc, oc) |->
                                         RStrip(LStrip(HardSlices(p, mc, oc)[k]))],
                                      NonEmpty)

PrefixedSlices(p, mc, oc) ==
  LET t == TrimmedSlices(p, mc, oc) IN
    [k \in DOMAIN t |->
       IF k = 1 THEN t[1]
       ELSE RStrip(LStrip(LastChars(t[k - 1], oc) \o <<LF, LF>> \o t[k]))]

\* C2, amended: for such a paragraph chunk_text returns the hard-split
\* slices, each trimmed and the empty ones dropped, the first as it is and
\* every later one prefixed with the last overlap_chars characters of the
\* trimmed slice before it and a blank line.
C2_HardSlicesPrefixed ==
  (pc = "returned" /\ SingleLongParagraph)
    => /\ chunks = PrefixedSlices(Paragraphs[1], max_chars, overlap_chars)
       /\ Len(chunks) >= 2

\* C2 witness: a single long paragraph was hard-split with overlap into
\* three slices or more.
C2_Witness ==
  /\ pc = "returned" /\ SingleLongParagraph
  /\ Len(chunks) >= 3
  /\ Len(chunks[2]) > max_chars

\* C3: chunk_text called with max_chars <= 0 on a text with a non-blank
\* paragraph ends in a configuration error; in particular it never returns
\* a list of chunks.
C3_NonPositiveMaxIsRejected ==
  (max_chars <= 0 /\ ~AllWhitespace(text)) => pc # "returned"

\* C4: with max_chars > 0 and 0 <= overlap_chars < max_chars, chunk_text
\* terminates for every text: it reaches its return statement.
C4_Terminates == <>(pc = "returned")

\* C4 witness: a call with valid parameters returned after hard-splitting a
\* long paragraph in three or more iterations.
C4_Witness ==
  /\ pc = "returned"
  /\ max_chars > 0 /\ 0 < overlap_chars /\ overlap_chars < max_chars
  /\ para # <<>> /\ start >= 2 * (max_chars - overlap_chars)

\* C5: when overlap_chars > 0 and packing produced n > 1 chunks, the pass
\* returns n chunks: the first unchanged, and chunk i the trimmed
\* concatenation of the last overlap_chars characters of the packed chunk
\* i-1, a blank line and the packed chunk i.
C5_SoftOverlapFromOriginal ==
  [][(pc = "overlap" /\ overlap_chars > 0 /\ Len(chunks) > 1)
       => /\ pc' = "returned"
          /\ Len(chunks') = Len(chunks)
          /\ chunks'[1] = chunks[1]
          /\ \A i \in 2..Len(chunks) :
               chunks'[i] = RStrip(LStrip(LastChars(chunks[i - 1], overlap_chars)
                                          \o <<LF, LF>> \o chunks[i]))]_vars

\* C5 witness: three one-letter paragraphs, overlap_chars 4: the third
\* output starts with the second paragraph, not with the first, which the
\* tail of the already-prefixed second output would have brought along.
C5_Witness ==
  /\ pc = "returned"
  /\ raw = <<"a", LF, LF, "d", LF, LF, "g">>
  /\ max_chars = 2 /\ overlap_chars = 4
  /\ chunks = << <<"a">>, <<"a", LF, LF, "d">>, <<"d", LF, LF, "g">> >>

\* C6: with overlap_chars = 0 and max_chars > 0 the returned chunks,
\* concatenated with whitespace deleted, are the text with whitespace deleted.
C6_NothingLost ==
  (pc = "returned" /\ overlap_chars = 0 /\ max_chars > 0)
    => NoSpace(Concat(chunks)) = NoSpace(text)

\* C6 witness: a call without overlap packed a short paragraph and
\* hard-split a long one that has whitespace inside.
C6_Witness ==
  /\ pc = "returned" /\ overlap_chars = 0 /\ max_chars > 0
  /\ Len(Paragraphs) >= 2
  /\ para # <<>> /\ \E i \in DOMAIN para : para[i] \in {SP, LF}
  /\ Len(chunks) >= 3

\* C7: if the text has paragraphs and they total, joined by blank lines, at
\* most max_chars characters, chunk_text returns one chunk, those paragraphs
\* joined by a blank line, whatever overlap_chars is.
C7_FitsInOneChunk ==
  (pc = "returned" /\ Paragraphs # <<>>
     /\ Len(JoinBlank(Paragraphs)) <= max_chars)
    => chunks = <<JoinBlank(Paragraphs)>>

\* C7 witness: two paragraphs that fill max_chars exactly, with an overlap set.
C7_Witness ==
  /\ pc = "returned"
  /\ Len(Paragraphs) = 2
  /\ Len(JoinBlank(Paragraphs)) = max_chars
  /\ overlap_chars > 0
  /\ Len(chunks) = 1

\* C8: for a text without a non-blank paragraph chunk_text returns no chunk,
\* for every max_chars and overlap_chars: it never enters the hard-split
\* loop, never holds a chunk and runs on until it has returned.
C8_BlankTextNoChunks ==
  AllWhitespace(text)
    => /\ chunks = <<>>
       /\ pc # "while"
       /\ pc = "returned" \/ ENABLED Next

\* C8 witness: a non-empty blank text was chunked with max_chars <= 0.
C8_Witness ==
  /\ pc = "returned"
  /\ text # <<>> /\ AllWhitespace(text)
  /\ max_chars <= 0 /\ overlap_chars < 0

\* C9: the triples built for a document that chunked into n pieces are n,
\* in chunk order, with chunk_index i, chunk_count n and doc_id
\* make_doc_id(source, i) at position i, whatever extra metadata was given.
C9_IndexesAndCount ==
  pc = "built"
    => /\ Len(docs) = Len(chunks)
       /\ \A k \in DOMAIN docs :
            /\ docs[k].text = chunks[k]
            /\ docs[k].metadata.chunk_index = k - 1
            /\ docs[k].metadata.chunk_count = Len(chunks)
            /\ docs[k].doc_id = make_doc_id(source, k - 1)

\* C9 witness: three or more triples were built with extra metadata that
\* names chunk_index and chunk_count itself.
C9_Witness ==
  /\ pc = "built"
  /\ Len(docs) >= 3
  /\ docs[1].metadata.filename = <<"x">>

\* C10: two calls of make_doc_id return the same id exactly when they were
\* given the same identifier and the same index.
C10_IdsDistinct ==
  Len(ids) = 2 => ((ids[1] = ids[2]) <=> (calls[1] = calls[2]))

\* C10 witness: two calls whose identifier and index, written one after the
\* other, read the same ("a1", 1 and "a", 11), and one whose identifier ends
\* like a canonical name.
C10_Witness ==
  /\ Len(ids) = 2
  /\ calls[1].file_abs \o Str(calls[1].chunk_index)
       = calls[2].file_abs \o Str(calls[2].chunk_index)
  /\ calls[1].chunk_index # calls[2].chunk_index
  /\ ids[1] # ids[2]

\* The (id, chunk text) pairs of a list of documents, in order.
Pairs(ds) == [k \in DOMAIN ds |-> <<ds[k].doc_id, ds[k].text>>]

\* A metadata dict without its ingested_at entry.
SansIngestedAt(md) == [key \in DOMAIN md \ {"ingested_at"} |-> md[key]]

SameInputsAsBefore ==
  /\ pc = "built"
  /\ prev_run.ran
  /\ prev_run.source = source
  /\ prev_run.text = text

\* C11: a second run on the same text, source identifier, max_chars and
\* overlap_chars returns the same (id, chunk text) pairs in the same order
\* as the first; given the same extra metadata, the metadata of the two runs
\* differ in ingested_at at most.
C11_RerunSamePairs ==
  SameInputsAsBefore
    => /\ Pairs(docs) = Pairs(prev_run.docs)
       /\ prev_run.extra = extra_metadata
            => /\ Len(docs) = Len(prev_run.docs)
               /\ \A k \in DOMAIN docs :
                    SansIngestedAt(docs[k].metadata)
                      = SansIngestedAt(prev_run.docs[k].metadata)

\* C11 witness: the second run of a document of two or more chunks, later
\* by the clock than the first.
C11_Witness ==
  /\ SameInputsAsBefore
  /\ Len(docs) >= 2
  /\ prev_run.extra = extra_metadata
  /\ docs[1].metadata.ingested_at # prev_run.docs[1].metadata.ingested_at

\* The requests of the trace, and its sleeps.
IsRequest(e) == e.ev = "request"
IsSleep(e) == e.ev = "sleep"
Succeeded(e) == e.resp.kind = "response" /\ e.resp.status < 400

\* C12: one call sends at most retries requests (none when retries <= 0),
\* every one of them the same method, URL and payload; request k is followed
\* by something only if it failed (an exception, or a status >= 400), and
\* then by a sleep of backoff_s * k seconds and request k + 1; the sleeps
\* grow strictly; the call ends right after a request that succeeded or
\* after request number retries, without sleeping again.
C12_BoundedRetriesWithBackoff ==
  LET reqs == SelectSeq(trace, IsRequest)
      sleeps == SelectSeq(trace, IsSleep)
  IN /\ Len(reqs) <= Max(0, call.retries)
     /\ \A i \in DOMAIN reqs : reqs[i].req = Request(call)
     /\ \A i \in DOMAIN trace :
          IF i % 2 = 1
            THEN /\ IsRequest(trace[i]) /\ trace[i].n = (i + 1) \div 2
                 /\ i < Len(trace) => ~Succeeded(trace[i])
            ELSE IsSleep(trace[i]) /\ trace[i].n = call.backoff_s * (i \div 2)
     /\ \A i, j \in DOMAIN sleeps : i < j => sleeps[i].n < sleeps[j].n
     /\ (trace # <<>> /\ Succeeded(trace[Len(trace)])) => rpc = "done"
     /\ (rpc = "done" /\ trace # <<>>)
          => /\ IsRequest(trace[Len(trace)])
             /\ Succeeded(trace[Len(trace)]) \/ Len(reqs) = call.retries
     /\ (rpc = "done" /\ trace = <<>>)
          => call.retries <= 0 \/ outcome.error.type = "ValueError"

\* C12 witness: a call with retries = 3 slept twice, the second time for
\* longer, and ended with its third request.
C12_Witness ==
  /\ rpc = "done"
  /\ call.retries = 3
  /\ Len(trace) = 5
  /\ trace[2].n < trace[4].n
  /\ trace[1].resp.kind = "exception" /\ trace[3].resp.status = 400

\* C13: a finished call has returned a value exactly when one of its
\* requests was answered with a status below 400: the body as JSON, or
\* {"raw": body} when the body is empty or not JSON; it has raised exactly
\* when no request was so answered.  A call that has not finished has
\* neither returned nor raised.
C13_ReturnsIffAnswered ==
  LET ok == { i \in DOMAIN trace : IsRequest(trace[i]) /\ Succeeded(trace[i]) }
  IN IF rpc = "done"
       THEN /\ outcome.kind \in {"return", "raise"}
            /\ outcome.kind = "return" <=> ok # {}
            /\ outcome.kind = "return"
                 => \E i \in ok :
                      outcome.value = [kind |-> IF trace[i].resp.text \in {"", "oops"}
                                                  THEN "raw" ELSE "json",
                                       body |-> trace[i].resp.text]
            /\ outcome.kind = "raise"
                 => /\ outcome.error.type \in {"RuntimeError", "ValueError"}
                    /\ outcome.error.type = "RuntimeError"
                         => Len(SelectSeq(trace, IsRequest)) = Max(0, call.retries)
       ELSE outcome.kind = "none" /\ ok = {}

\* C13 witness: after a failed request the second one was answered 399 with
\* an empty body, and the call returned {"raw": ""}.
C13_Witness ==
  /\ rpc = "done"
  /\ Len(trace) = 3
  /\ trace[1].resp.status = 500
  /\ trace[3].resp.status = 399 /\ trace[3].resp.text = ""
  /\ outcome.kind = "return" /\ outcome.value = [kind |-> "raw", body |-> ""]

\* A text written with LF line ends, rewritten with CRLF or with CR ones.
RECURSIVE WithCRLF(_)
WithCRLF(s) ==
  IF s = <<>> THEN <<>>
  ELSE (IF Head(s) = LF THEN <<CR, LF>> ELSE <<Head(s)>>) \o WithCRLF(Tail(s))

WithCR(s) == [i \in DOMAIN s |-> IF s[i] = LF THEN CR ELSE s[i]]

\* C15: when build_documents or the adapter hands a text to the paragraph
\* splitter, every paragraph it yields is non-empty and has no whitespace at
\* either end, the paragraphs hold the text's non-whitespace characters in
\* their original order, and a text written with LF line ends yields the
\* same paragraphs when it is written with CRLF or with CR line ends.
C15_ParagraphsWhateverNewline ==
  [][(pc = "start" /\ pc' = "for")
       => /\ \A k \in DOMAIN paras' :
               /\ paras'[k] # <<>>
               /\ paras'[k][1] \notin {SP, LF, CR}
               /\ paras'[k][Len(paras'[k])] \notin {SP, LF, CR}
          /\ NoSpace(Concat(paras')) = NoSpace(text')
          /\ (\A i \in DOMAIN text' : text'[i] # CR)
               => /\ iter_paragraphs(WithCRLF(text')) = paras'
                  /\ iter_paragraphs(WithCR(text')) = paras']_vars

\* C15 witness: a text with a run of three newlines between two paragraphs
\* has just been split, into exactly those two.
C15_Witness ==
  /\ pc = "for" /\ chunks = <<>> /\ buf = <<>> /\ para = <<>>
  /\ \E i \in 1..(Len(text) - 2) : text[i] = LF /\ text[i + 1] = LF /\ text[i + 2] = LF
  /\ \A i \in DOMAIN text : text[i] # CR
  /\ Len(paras) = 2
  /\ iter_paragraphs(WithCRLF(text)) = paras

\* The paragraphs that grouping g puts into chunk k, in order.
GroupOf(g, k) ==
  LET members == { i \in DOMAIN g : g[i] = k }
      first == CHOOSE i \in members : \A j \in members : i <= j
  IN [n \in 1..Cardinality(members) |-> Paragraphs[first + n - 1]]

\* C17: with overlap_chars = 0 and no paragraph longer than max_chars, the
\* returned chunks are the paragraphs, in order, cut into consecutive
\* non-empty groups, each chunk its group joined by blank lines; and the
\* first paragraph of every later group would not have fitted into the
\* chunk before it: len(chunk k) + 2 + len(that paragraph) > max_chars.
C17_GreedyPacking ==
  (pc = "returned" /\ overlap_chars = 0
     /\ \A i \in DOMAIN Paragraphs : Len(Paragraphs[i]) <= max_chars)
    => \E g \in [DOMAIN Paragraphs -> DOMAIN chunks] :
         /\ \A i, j \in DOMAIN g : i < j => g[i] <= g[j]
         /\ \A k \in DOMAIN chunks :
              /\ \E i \in DOMAIN g : g[i] = k
              /\ chunks[k] = JoinBlank(GroupOf(g, k))
         /\ \A k \in 1..(Len(chunks) - 1) :
              Len(chunks[k]) + 2 + Len(GroupOf(g, k + 1)[1]) > max_chars

\* C17 witness: three paragraphs, the first two packed into one chunk that
\* the third did not fit into.
C17_Witness ==
  /\ pc = "returned" /\ overlap_chars = 0
  /\ Len(Paragraphs) = 3
  /\ \A i \in DOMAIN Paragraphs : Len(Paragraphs[i]) <= max_chars
  /\ Len(chunks) = 2
  /\ chunks[1] = JoinBlank(SubSeq(Paragraphs, 1, 2))

\* C18: for every pair of parameters the page lets through chunk_text
\* reaches its return statement, the start position growing at every
\* iteration of the hard split.
C18_AcceptedPairsTerminate ==
  /\ <>(pc = "returned")
  /\ [][(pc = "while" /\ pc' = "while") => start' > start]_vars

\* C19: for max_chars > 0 and overlap_chars >= 0 every chunk chunk_text
\* returns has at most max_chars + overlap_chars + 2 characters, and the
\* first, which gets no overlap prefix, at most max_chars.
C19_ChunksWithinMaxPlusOverlap ==
  (pc = "returned" /\ max_chars > 0 /\ overlap_chars >= 0)
    => /\ \A i \in DOMAIN chunks : Len(chunks[i]) <= max_chars + overlap_chars + 2
       /\ chunks # <<>> => Len(chunks[1]) <= max_chars

\* C19 witness: a returned chunk of exactly max_chars + overlap_chars + 2
\* characters, with an overlap shorter than the chunk before it.
C19_Witness ==
  /\ pc = "returned" /\ max_chars > 1 /\ overlap_chars > 0
  /\ overlap_chars < max_chars
  /\ \E i \in DOMAIN chunks : Len(chunks[i]) = max_chars + overlap_chars + 2

\* C14: every entry of a POST to the documents endpoint (update mode) has
\* the fields doc_id, text, hash_value and metadata, its doc_id the
\* deterministic id of the chunk it carries and its hash_value the digest of
\* its own text; an update sends every chunk of the document; every entry of
\* a POST to the create endpoint (create mode, and the create fallback of an
\* update) has the fields text and metadata and no other.
C14_PayloadEntries ==
  \A r \in DOMAIN sent :
    LET entries == sent[r].documents IN
      IF sent[r].endpoint = DocumentsEndpoint
        THEN /\ mode = "update" /\ r = 1
             /\ Len(entries) = Len(docs)
             /\ \A k \in DOMAIN entries :
                  /\ DOMAIN entries[k] = {"doc_id", "text", "hash_value", "metadata"}
                  /\ entries[k].doc_id = make_doc_id(source, k - 1)
                  /\ entries[k].text = docs[k].text
                  /\ entries[k].metadata = docs[k].metadata
                  /\ entries[k].hash_value = [sha256 |-> entries[k].text]
        ELSE /\ sent[r].endpoint = CreateEndpoint
             /\ mode = "create" \/ r = 2
             /\ \A k \in DOMAIN entries :
                  /\ DOMAIN entries[k] = {"text", "metadata"}
                  /\ \E j \in DOMAIN docs :
                       /\ entries[k].text = docs[j].text
                       /\ entries[k].metadata = docs[j].metadata

\* C14 witness: an update of a document of two chunks was sent, and after
\* it the create fallback.
C14_Witness ==
  /\ ipc = "done"
  /\ Len(sent) = 2
  /\ sent[1].endpoint = DocumentsEndpoint /\ Len(sent[1].documents) = 2
  /\ sent[2].endpoint = CreateEndpoint /\ Len(sent[2].documents) = 2

\* The ingestions made so far, the one that has just ended included.
Rounds == Append(history, [mode |-> mode, status |-> result.status,
                           answer |-> update_result])

\* The documents the backend stores for chunk index i.
StoredAt(i) == { k \in DOMAIN store.docs : store.docs[k].metadata.chunk_index = i }

\* The answer to an update lists every submitted document as not found and
\* no other: what a backend that knows none of the doc_ids answers.
AllNotFound(answer) ==
  answer.answered
    => /\ Len(answer.not_found_documents) = Len(docs)
       /\ \A k \in DOMAIN answer.not_found_documents :
            answer.not_found_documents[k] # Stranger

\* C16: after a create followed by updates, or (through the adapter) after
\* updates alone, all of them successful and answered by a backend that
\* reports the doc_ids it does not know, the backend stores exactly one
\* document for every chunk index of the document.
C16_OneStoredPerChunk ==
  (/\ ipc = "done"
   /\ \A r \in DOMAIN Rounds : Rounds[r].status \in {"created", "updated"}
   /\ \A r \in DOMAIN Rounds : AllNotFound(Rounds[r].answer)
   /\ \A r \in 2..Len(Rounds) : Rounds[r].mode = "update"
   /\ Rounds[1].mode = "create" \/ caller # "cli")
    => \A i \in 0..(Len(docs) - 1) : Cardinality(StoredAt(i)) = 1

\* C20: in create mode ingest_file and ingest_raw_text have sent a POST only
\* if the filename check found no document or failed with HTTP 404; if the
\* check found a document the ingestion has ended as skipped, with reason
\* filename_exists, and if it failed with another error the ingestion has
\* ended with that error, in both cases with nothing sent.
C20_CreateOnlyAfterCheck ==
  (caller \in {"ingest_file", "ingest_raw_text"} /\ mode = "create")
    => /\ sent # <<>>
            => \/ checked.kind = "documents" /\ checked.documents = <<>>
               \/ checked.kind = "error" /\ checked.status = "404"
       /\ (checked.kind = "documents" /\ checked.documents # <<>>)
            => /\ ipc = "done"
               /\ result = [status |-> "skipped", reason |-> "filename_exists"]
               /\ sent = <<>>
       /\ (checked.kind = "error" /\ checked.status # "404")
            => /\ ipc = "done"
               /\ result.status = "raised"
               /\ sent = <<>>

\* C21: in update mode ingest_file and ingest_raw_text send the update POST
\* first and at most one POST after it; a second POST is a create, sent only
\* when the answer to the update lists under not_found_documents the doc_id
\* of at least one submitted chunk, and it carries exactly the chunks so
\* listed, in their order; when the answer lists none of them the ingestion
\* ends with one POST sent and the status "updated".
C21_UpdateThenCreateMissing ==
  (caller \in {"ingest_file", "ingest_raw_text"} /\ mode = "update")
    => LET not_found == update_result.not_found_documents
           Listed_(d) == \E k \in DOMAIN not_found : not_found[k].doc_id = d.doc_id
           listed == SelectSeq(docs, Listed_)
       IN /\ Len(sent) <= 2
          /\ sent # <<>> => sent[1] = UpdateRequest(docs)
          /\ Len(sent) = 2
               => /\ update_result.answered
                  /\ listed # <<>>
                  /\ sent[2].endpoint = CreateEndpoint
                  /\ Len(sent[2].documents) = Len(listed)
                  /\ \A k \in DOMAIN listed :
                       /\ sent[2].documents[k].text = listed[k].text
                       /\ sent[2].documents[k].metadata = listed[k].metadata
          /\ (ipc = "done" /\ update_result.answered)
               => IF listed = <<>>
                    THEN Len(sent) = 1 /\ result = [status |-> "updated", reason |-> ""]
                    ELSE Len(sent) = 2 /\ result.status \in {"created", "raised"}

\* C21 witness: the update of a document of two chunks was answered with
\* the second chunk and an unknown doc_id as not found, and the create
\* that followed carried one document.
C21_Witness ==
  /\ ipc = "done"
  /\ caller \in {"ingest_file", "ingest_raw_text"} /\ mode = "update"
  /\ Len(docs) = 2
  /\ update_result.not_found_documents = <<[doc_id |-> docs[2].doc_id], Stranger>>
  /\ Len(sent) = 2 /\ Len(sent[2].documents) = 1
  /\ result.status = "created"

\* C27: after any calls of upsert_prompt and delete_prompt on a library that
\* was empty, the stored rows have pairwise distinct names, every name is
\* non-empty, has no whitespace at either end and at most 15 characters,
\* every prompt text is non-empty, and no row comes after a row whose
\* lower-cased name is greater than its own.
C27_LibraryWellFormed ==
  /\ \A i, j \in DOMAIN library : library[i].name = library[j].name => i = j
  /\ \A i \in DOMAIN library :
       /\ library[i].name # <<>>
       /\ library[i].name[1] \notin {SP, LF, CR}
       /\ library[i].name[Len(library[i].name)] \notin {SP, LF, CR}
       /\ Len(library[i].name) <= 15
       /\ library[i].prompt # <<>>
  /\ \A i, j \in DOMAIN library :
       i < j => ~StrLess([k \in DOMAIN library[j].name |->
                            IF library[j].name[k] = "B" THEN "b" ELSE library[j].name[k]],
                         [k \in DOMAIN library[i].name |->
                            IF library[i].name[k] = "B" THEN "b" ELSE library[i].name[k]])

\* C27 witness: two rows are stored, the name of 15 characters and then "B",
\* the last call having renamed "b" to "B".
C27_Witness ==
  /\ Len(library) = 2
  /\ Len(library[1].name) = 15
  /\ library[2].name = <<"B">>
  /\ lib_last.op = "upsert_prompt" /\ lib_last.raised = ""
  /\ lib_last.original_name = [is_none |-> FALSE, value |-> <<"b">>]
  /\ Len(lib_last.before) = 2 /\ lib_last.before[2].name = <<"b">>

\* The names stored in rows.
NamesIn(rows) == { rows[i].name : i \in DOMAIN rows }

\* The argument of the last call without the whitespace at its ends.
LastTarget == Strip(lib_last.name)

\* C28: an upsert_prompt whose name is empty or longer than 15 characters,
\* whose text is empty, or that renames to a name another stored row has,
\* raises and leaves the rows as they were; a delete_prompt returns true
\* exactly when a row with that name was stored, then leaves the other rows
\* as they were, in their order, and otherwise leaves all rows as they were.
C28_RejectedLeavesLibrary ==
  /\ lib_last.op = "upsert_prompt"
       => /\ (\/ LastTarget = <<>>
              \/ Len(LastTarget) > 15
              \/ Strip(lib_last.prompt) = <<>>
              \/ /\ ~lib_last.original_name.is_none
                 /\ Strip(lib_last.original_name.value) \notin {<<>>, LastTarget}
                 /\ LastTarget \in NamesIn(lib_last.before))
               => lib_last.raised # ""
          /\ lib_last.raised # "" => library = lib_last.before
  /\ lib_last.op = "delete_prompt"
       => /\ lib_last.returned <=> LastTarget \in NamesIn(lib_last.before)
          /\ LET Kept(row) == row.name # LastTarget
             IN library = SelectSeq(lib_last.before, Kept)

\* C28 witness: with "B" and "b" both stored, delete_prompt("b") has
\* returned true and "B" is still there.
C28_Witness ==
  /\ lib_last.op = "delete_prompt" /\ lib_last.returned
  /\ LastTarget = <<"b">>
  /\ Len(lib_last.before) >= 2
  /\ <<"B">> \in NamesIn(library)

\* What a line says: the content of a "data:" line, spaces around its parts
\* or not, whose JSON text has a non-empty choices[0].delta.content.
Says(line) ==
  LET Is(body) == \E lead, gap, trail \in {<<>>, <<SP>>} :
                    line = lead \o DataPrefix \o gap \o <<body>> \o trail
  IN IF Is("{content:x}") THEN <<<<"x">>>>
     ELSE IF Is("{content:y}") THEN <<<<"y">>>>
     ELSE IF Is("{content:5}") THEN <<<<"5">>>>
     ELSE <<>>

IsDoneLine(line) ==
  \E lead, gap, trail \in {<<>>, <<SP>>} : line = lead \o DataPrefix \o gap \o Done \o trail

\* The lines before the first [DONE] line.
BeforeDone ==
  LET dones == { i \in DOMAIN sse_lines : IsDoneLine(sse_lines[i]) }
  IN IF dones = {} THEN Len(sse_lines)
     ELSE (CHOOSE i \in dones : \A j \in dones : i <= j) - 1

\* What the first n lines say, in their order.
RECURSIVE SaidBy(_)
SaidBy(n) == IF n = 0 THEN <<>> ELSE SaidBy(n - 1) \o Says(sse_lines[n])

\* C26: what iter_sse_chat_delta_text has yielded is, at any moment, what
\* the lines it has taken before the first [DONE] line say, in stream order;
\* it has returned only at the first [DONE] line or at the end of the stream,
\* so that no blank, non-data or malformed line stops it and no line after
\* [DONE] is taken.
C26_YieldsContentsUntilDone ==
  /\ sse_out = SaidBy(Min(sse_pos, BeforeDone))
  /\ sse_pos <= Min(BeforeDone + 1, Len(sse_lines))
  /\ sse_pc = "returned" => sse_pos = Min(BeforeDone + 1, Len(sse_lines))

\* C26 witness: the generator has returned at a [DONE] line that is followed
\* by a line with content, having yielded one content after a line that is no
\* JSON.
C26_Witness ==
  /\ sse_pc = "returned"
  /\ Len(sse_lines) = 4 /\ sse_pos = 3
  /\ sse_lines[1] = DataPrefix \o <<SP, "{">>
  /\ Says(sse_lines[4]) # <<>>
  /\ sse_out = <<<<"x">>>>

\* The retrieved source text: the texts of the source nodes, a blank line
\* between one and the next.
RetrievedText ==
  LET IsNode(n) == n.t = "dict"
      nodes == SelectSeq(gv_in.source_nodes, IsNode)
      TextOf(n) == IF "text" \notin DOMAIN n.v THEN <<>>
                   ELSE IF n.v.text.t = "num" THEN Str(n.v.text.v) ELSE n.v.text.v
  IN JoinBlank([k \in DOMAIN nodes |-> TextOf(nodes[k])])

\* The quotes supplied: the non-blank strings of an array, the non-blank
\* items of a string that is a JSON array, or the non-blank string itself,
\* each without the whitespace at its ends.
SuppliedQuotes ==
  LET given == gv_in.evidence_quotes
      Text(item) == IF item.t = "num" THEN Str(item.v) ELSE item.v
      Quote(item) == item.t \in {"str", "num"} /\ Strip(Text(item)) # <<>>
      Of(items) == LET kept == SelectSeq(items, Quote)
                   IN [k \in DOMAIN kept |-> Strip(Text(kept[k]))]
      IsString(item) == item.t = "str"
  IN IF given.t = "list" THEN Of(SelectSeq(given.v, IsString))
     ELSE IF given.t # "str" \/ Strip(given.v) = <<>> THEN <<>>
     ELSE IF json_loads_array(Strip(given.v)).ok
       THEN Of(json_loads_array(Strip(given.v)).items)
     ELSE <<Strip(given.v)>>

FoundInText(quote) ==
  \E i \in 1..Len(RetrievedText) : \E j \in i..Len(RetrievedText) :
    SubSeq(RetrievedText, i, j) = quote

\* C29: a validation that was applied has failed_groundedness true exactly
\* when no quote was supplied, evidence_quotes is neither a string nor an
\* array (nor missing), the array has an item that is no string, or a
\* supplied quote does not occur in the retrieved source text; quotes_total
\* is the number of supplied quotes, quotes_matched the number of those that
\* occur in the retrieved source text, never more than quotes_total.
C29_FailedGroundedness ==
  (gv_out.returned /\ gv_out.applied)
    => LET given == gv_in.evidence_quotes
           found == { k \in DOMAIN SuppliedQuotes : FoundInText(SuppliedQuotes[k]) }
       IN /\ gv_out.failed_groundedness
               <=> \/ SuppliedQuotes = <<>>
                   \/ given.t \in {"num", "dict"}
                   \/ given.t = "list" /\ \E k \in DOMAIN given.v : given.v[k].t # "str"
                   \/ found # DOMAIN SuppliedQuotes
          /\ gv_out.quotes_total = Len(SuppliedQuotes)
          /\ gv_out.quotes_matched = Cardinality(found)
          /\ gv_out.quotes_matched <= gv_out.quotes_total

\* C29 witness: two quotes were supplied, the second of them found in the
\* second source node only, and the validation has not failed.
C29_Witness ==
  /\ gv_out.returned /\ gv_out.applied
  /\ ~gv_out.failed_groundedness
  /\ gv_out.quotes_total = 2 /\ gv_out.quotes_matched = 2
  /\ Len(gv_in.source_nodes) = 2
  /\ gv_in.source_nodes[1] = JDict([text |-> JStr(<<"a">>)])
  /\ gv_in.source_nodes[2] = JDict([text |-> JStr(<<"b">>)])
  /\ gv_in.evidence_quotes = JList(<<JStr(<<SP, "a", SP>>), JStr(<<"b">>)>>)

\* ---- chat requests
\* The max_tokens the Generation controls stand for: Max tokens, raised to
\* RAG min max_tokens in RAGEngine mode.
ChosenMaxTokens ==
  IF cfg.is_ragengine THEN Max(cfg.max_tokens, cfg.rag_min_tokens) ELSE cfg.max_tokens

\* C22: every chat request sent for a prompt carries the temperature of the
\* Generation controls and their max_tokens (in RAGEngine mode the larger of
\* Max tokens and RAG min max_tokens), whatever the Extra JSON payload
\* holds, and auto_adjusted tells whether that differs from Max tokens.
C22_ControlsOnEveryRequest ==
  /\ \A i \in DOMAIN requests :
       /\ requests[i].payload.temperature = cfg.temperature
       /\ requests[i].payload.max_tokens = ChosenMaxTokens
  /\ RagEnforcement(cfg).auto_adjusted
       = (cfg.is_ragengine /\ ChosenMaxTokens # cfg.max_tokens)

KindsSent == [i \in DOMAIN requests |-> requests[i].kind]

\* The requests of a prompt are the initial one, then at most one
\* empty-response retry, then at most one low-quality retry; the
\* empty-response retry carries temperature 0.0 and max_tokens >= 256, the
\* low-quality retry is made in RAGEngine mode only, and a request made with
\* stream=True is followed by no other.
RequestsInOrder ==
  /\ KindsSent \in { <<>>, <<"initial">>,
                     <<"initial", "empty_response_retry">>,
                     <<"initial", "low_quality_response_retry">>,
                     <<"initial", "empty_response_retry", "low_quality_response_retry">> }
  /\ \A i \in DOMAIN requests :
       /\ requests[i].kind = "empty_response_retry" =>
            /\ requests[i].payload.temperature = 0
            /\ requests[i].payload.max_tokens >= 256
       /\ requests[i].kind = "low_quality_response_retry" => cfg.is_ragengine
       /\ requests[i].stream => Len(requests) = 1

\* The empty-response retry is sent on a response without assistant text
\* and without source_nodes, the low-quality retry on one with source_nodes.
RetriesCalledFor ==
  Len(requests') = Len(requests) + 1 =>
    LET sent_now == requests'[Len(requests')]
    IN /\ sent_now.kind = "empty_response_retry" =>
            full_text' = NoText /\ source_nodes' \in {"null", "empty"}
       /\ sent_now.kind = "low_quality_response_retry" =>
            cfg.is_ragengine /\ source_nodes = "some"

\* C23: one submitted prompt causes at most three chat-completion requests:
\* the initial one, at most one empty-response retry (only on a response
\* without assistant text and without source_nodes; with temperature 0.0
\* and max_tokens >= 256) and at most one low-quality retry (only in
\* RAGEngine mode with non-empty source_nodes); a streamed request is never
\* retried.
C23_AtMostThreeRequests == []RequestsInOrder /\ [][RetriesCalledFor]_vars

C23_Witness ==
  /\ KindsSent = <<"initial", "empty_response_retry", "low_quality_response_retry">>
  /\ cfg.max_tokens < 256
  /\ chat_pc = "idle"
  /\ Len(turns) = MaxPrompts
\* ---- chat history
RECURSIVE TurnRoles(_)
TurnRoles(ts) ==
  IF ts = <<>> THEN <<>>
  ELSE TurnRoles(SubSeq(ts, 1, Len(ts) - 1))
         \o (IF ts[Len(ts)].ended = "ok" THEN <<"user", "assistant">> ELSE <<"user">>)

UserContents == SelectSeq(messages, LAMBDA m : m.role = "user")

\* C24: the chat history is one system message followed, for each prompt
\* submitted since the session began or New chat was clicked, by its user
\* message and, when its handling succeeded, one assistant message; after
\* New chat it is the single system message.
C24_HistoryOfTurns ==
  /\ messages # <<>>
  /\ messages[1] = [role |-> "system", content |-> <<"helpful">>]
  /\ [i \in DOMAIN messages |-> messages[i].role] = <<"system">> \o TurnRoles(turns)
  /\ [i \in DOMAIN UserContents |-> UserContents[i].content]
       = [i \in DOMAIN turns |-> turns[i].prompt]

C24_Witness ==
  /\ chat_pc = "idle"
  /\ Len(turns) = MaxPrompts
  /\ turns[1].ended = "error"
  /\ turns[Len(turns)].ended = "ok"
  /\ Len(requests) > 1

\* ---- messages sent in RAGEngine mode
\* The system message and the prompt _select_request_messages is to pick
\* for the prompt last submitted (turns is empty once New chat was clicked).
SystemChosen ==
  IF cfg.system_prompt_override # <<>> THEN cfg.system_prompt_override
  ELSE messages[1].content
PromptSubmitted == turns[Len(turns)].prompt

\* C25 as the specification states it: in RAGEngine mode every request of a
\* prompt carries exactly two messages, the history's first system message
\* (or the library prompt of the override) and the prompt just submitted.
C25_TwoMessagesSent ==
  cfg.is_ragengine /\ turns # <<>> =>
    \A i \in DOMAIN requests :
      requests[i].payload.messages
        = <<[role |-> "system", content |-> SystemChosen],
            [role |-> "user", content |-> PromptSubmitted]>>

\* C25, amended: in RAGEngine mode, with an Extra JSON payload that has no
\* messages key, every request of a prompt carries exactly two messages, a
\* system message and the prompt just submitted; the system message is the
\* history's first one or the library prompt of the override, and in the
\* low-quality retry the fixed grounded instruction; with a messages key,
\* every request carries the messages of the Extra JSON payload.
C25_TwoMessagesUnlessReplaced ==
  cfg.is_ragengine /\ turns # <<>> =>
    \A i \in DOMAIN requests :
      requests[i].payload.messages
        = IF "messages" \in DOMAIN cfg.extra_json THEN cfg.extra_json.messages
          ELSE <<[role |-> "system",
                  content |-> IF requests[i].kind = "low_quality_response_retry"
                                THEN <<"grounded">> ELSE SystemChosen],
                 [role |-> "user", content |-> PromptSubmitted]>>

C25_Witness ==
  /\ cfg.is_ragengine
  /\ "messages" \notin DOMAIN cfg.extra_json
  /\ cfg.system_prompt_override # <<>>
  /\ Len(messages) > 3
  /\ Len(requests) = 3
====
